---- MODULE Spec2Model ----
(***************************************************************************)
(* A model of the rum web framework's routing core: the path model, the    *)
(* route trie (RouteLevel), the middleware chain builder                    *)
(* (CompleteRouteHandler), route group composition (RouteGroup) and the     *)
(* request dispatch of ServerService::call.                                 *)
(*                                                                         *)
(* A Rust string is a sequence of one-character strings, so that parsing   *)
(* a path is computed character by character as the code does.             *)
(***************************************************************************)
EXTENDS Integers, Sequences, FiniteSets, TLC

VARIABLES
    routes,     \* the RouteLevel trie (ServerService.routes / a RouteLevel under construction)
    reg,        \* the RouteLevel::add calls made so far, as <<method, path>>, in order
    res,        \* outcome of the last ServerService::call dispatch (or NoRes)
    group,      \* the stack of RouteGroup builders under construction (the root first)
    served,     \* whether serve_with has turned the root group into the trie
    chain,      \* the CompleteRouteHandler whose invoker is being run
    behaviour,  \* what each middleware of the chain does (user code)
    frames,     \* the call stack of one request running through the invoker
    events,     \* the per-request order list the middleware and handler push to
    response,   \* the response travelling back up the chain (headers appended)
    typemap,    \* a TypeMap: the value stored for each type that has one
    ret,        \* the last TypeMap operation or State extraction and what it returned
    state,      \* Server.state, the TypeMap behind the StateManager of every request
    requests,   \* the requests in flight: each one's LocalState and position in its chain
    input,      \* the string handed to RoutePath::from
    out,        \* the last call made on the path parsed from input and what it returned
    reports,    \* the messages sent on the error reporting channel, oldest first
    handled,    \* the requests ServerService::call has answered, oldest first
    server,     \* Server::serve_with: where its loop is, and the shutdown signal channel
    receiver    \* the ErrorReceiver: Active or Done, and what next has returned so far

routingVars == <<routes, reg, res, group, served, chain, behaviour, frames, events, response>>

extVars == <<typemap, ret, state, requests, input, out, reports, handled, server, receiver>>

vars == <<routes, reg, res, group, served, chain, behaviour, frames, events, response,
          typemap, ret, state, requests, input, out, reports, handled, server, receiver>>

\* the parts of the state the routing and middleware specifications leave alone
IdleExt ==
    /\ typemap = <<>>
    /\ ret = <<>>
    /\ state = <<>>
    /\ requests = <<>>
    /\ input = <<>>
    /\ out = <<>>
    /\ reports = <<>>
    /\ handled = <<>>
    /\ server = <<>>
    /\ receiver = <<>>

(***************************************************************************)
(* Bounds of the model.                                                    *)
(***************************************************************************)
MaxAdds == 3

(***************************************************************************)
(* Maps (HashMap): functions with a finite domain.                         *)
(***************************************************************************)
EmptyMap == [k \in {} |-> k]

\* HashMap::insert keeping the value a key already has
PutKeepsOld(f, k, v) == [x \in (DOMAIN f) \cup {k} |-> IF x \in DOMAIN f THEN f[x] ELSE v]

Put(f, k, v) == [x \in (DOMAIN f) \cup {k} |-> IF x = k THEN v ELSE f[x]]

(***************************************************************************)
(* Strings and the path model.                                             *)
(***************************************************************************)
\* Static(name) / Wildcard(name) of RoutePathSegment
Static(name) == [type |-> "Static", name |-> name]

Wildcard(name) == [type |-> "Wildcard", name |-> name]

\* Static(name) / Wildcard(name, value) of RoutePathMatchedSegment
MatchedStatic(name) == [type |-> "Static", name |-> name]

MatchedWildcard(name, value) == [type |-> "Wildcard", name |-> name, value |-> value]

\* str::split('/'): the pieces between the slashes, empty ones included
RECURSIVE SplitSlash(_, _, _)
SplitSlash(s, cur, acc) ==
    IF s = <<>> THEN Append(acc, cur)
    ELSE IF Head(s) = "/" THEN SplitSlash(Tail(s), <<>>, Append(acc, cur))
    ELSE SplitSlash(Tail(s), Append(cur, Head(s)), acc)

\* the closure of filter_map keeping the empty pieces as static segments
SegmentFromKeepsEmpty(segment) ==
    IF Len(segment) > 2 /\ Head(segment) = "{" /\ segment[Len(segment)] = "}"
    THEN <<Wildcard(SubSeq(segment, 2, Len(segment) - 1))>>
    ELSE <<Static(segment)>>

\* the closure of filter_map in From<&str> for RoutePath; <<>> stands for None
SegmentFrom(segment) ==
    IF segment = <<>> THEN <<>>
    ELSE IF Head(segment) = "{" /\ segment[Len(segment)] = "}" /\ Len(segment) > 2
         THEN <<Wildcard(SubSeq(segment, 2, Len(segment) - 1))>>
         ELSE <<Static(segment)>>

RECURSIVE FilterMapSegments(_)
FilterMapSegments(pieces) ==
    IF pieces = <<>> THEN <<>>
    ELSE SegmentFrom(Head(pieces)) \o FilterMapSegments(Tail(pieces))

\* impl From<&str> for RoutePath
RoutePathFrom(value) == FilterMapSegments(SplitSlash(value, <<>>, <<>>))

\* join putting the other path's segments first
JoinPrepends(a, b) == b \o a

\* RoutePath::join / RoutePathMatched::join
Join(a, b) == a \o b

(***************************************************************************)
(* The route trie.                                                         *)
(***************************************************************************)
\* RouteLevel::default(); wildcard_sub_route is <<>> (None) or <<name, level>>
EmptyLevel ==
    [self_routes |-> EmptyMap, static_sub_routes |-> EmptyMap, wildcard_sub_route |-> <<>>]

\* generate_invoker_recursive peeling the list from its end: the last middleware
\* becomes the outermost
RECURSIVE GenerateInvokerReversed(_, _)
GenerateInvokerReversed(middleware, handler) ==
    IF middleware = <<>>
    THEN [calls |-> "handler", target |-> handler, next |-> <<>>]
    ELSE [calls |-> "middleware", target |-> middleware[Len(middleware)],
          next |-> <<GenerateInvokerReversed(SubSeq(middleware, 1, Len(middleware) - 1),
                                             handler)>>]

\* generate_invoker_recursive handing every middleware the handler's invoker as
\* its next, instead of the rest of the chain
GenerateInvokerNextIsHandler(middleware, handler) ==
    IF middleware = <<>>
    THEN [calls |-> "handler", target |-> handler, next |-> <<>>]
    ELSE [calls |-> "middleware", target |-> Head(middleware),
          next |-> <<[calls |-> "handler", target |-> handler, next |-> <<>>]>>]

\* generate_invoker_recursive without the reset of req.next in the handler's
\* closure: the handler sees the next the last middleware was given
RECURSIVE GenerateInvokerHandlerKeepsNext(_, _)
GenerateInvokerHandlerKeepsNext(middleware, handler) ==
    IF middleware = <<>>
    THEN [calls |-> "handler", target |-> handler,
          next |-> <<[calls |-> "handler", target |-> handler, next |-> <<>>]>>]
    ELSE [calls |-> "middleware", target |-> Head(middleware),
          next |-> <<GenerateInvokerHandlerKeepsNext(Tail(middleware), handler)>>]

\* CompleteRouteHandler::generate_invoker_recursive: the NextFn closure as data;
\* calling it sets req.next to its next field and calls its target
RECURSIVE GenerateInvokerRecursive(_, _)
GenerateInvokerRecursive(middleware, handler) ==
    IF middleware = <<>>
    THEN [calls |-> "handler", target |-> handler, next |-> <<>>]
    ELSE [calls |-> "middleware", target |-> Head(middleware),
          next |-> <<GenerateInvokerRecursive(Tail(middleware), handler)>>]

\* CompleteRouteHandler::generate_invoker
GenerateInvoker(middleware, handler) == GenerateInvokerRecursive(middleware, handler)

\* CompleteRouteHandler::new: the middleware list, the inner handler, the invoker
CompleteRouteHandler(handler, middleware) ==
    [middleware |-> middleware, handler |-> handler,
     invoker |-> GenerateInvoker(middleware, handler)]

\* add_middleware appending the installed middleware after the route's own
AddMiddlewareAfter(route, middleware) ==
    CompleteRouteHandler(route.handler, route.middleware \o middleware)

\* CompleteRouteHandler::add_middleware: the new middleware goes in front
AddMiddleware(route, middleware) ==
    CompleteRouteHandler(route.handler, middleware \o route.middleware)

Panic == [tag |-> "Panic"]

Ok(matched, route) == [tag |-> "Ok", matched_path |-> matched, route |-> route]

Err(e) == [tag |-> "Err", err |-> e]

\* get_recursive with the two lookups of a segment swapped: the wildcard child
\* is tried before the static child
RECURSIVE GetRecursiveWildcardFirst(_, _, _, _)
GetRecursiveWildcardFirst(level, method, path, path_match) ==
    IF path = <<>>
    THEN IF method \in DOMAIN level.self_routes
         THEN Ok(path_match, level.self_routes[method])
         ELSE Err("MethodNotAllowed")
    ELSE LET first == Head(path)
             rest == Tail(path)
         IN  IF first.type = "Static"
             THEN IF level.wildcard_sub_route # <<>>
                  THEN GetRecursiveWildcardFirst(level.wildcard_sub_route[2], method, rest,
                           Join(path_match,
                                <<MatchedWildcard(level.wildcard_sub_route[1], first.name)>>))
                  ELSE IF first.name \in DOMAIN level.static_sub_routes
                       THEN GetRecursiveWildcardFirst(level.static_sub_routes[first.name],
                                method, rest, Join(path_match, <<MatchedStatic(first.name)>>))
                       ELSE Err("NotFound")
             ELSE Panic

\* RouteLevel::get_recursive
RECURSIVE GetRecursive(_, _, _, _)
GetRecursive(level, method, path, path_match) ==
    IF path = <<>>
    THEN IF method \in DOMAIN level.self_routes
         THEN Ok(path_match, level.self_routes[method])
         ELSE Err("MethodNotAllowed")
    ELSE LET first == Head(path)
             rest == Tail(path)
         IN  IF first.type = "Static"
             THEN IF first.name \in DOMAIN level.static_sub_routes
                  THEN GetRecursive(level.static_sub_routes[first.name], method, rest,
                                    Join(path_match, <<MatchedStatic(first.name)>>))
                  ELSE IF level.wildcard_sub_route # <<>>
                       THEN GetRecursive(level.wildcard_sub_route[2], method, rest,
                                Join(path_match,
                                     <<MatchedWildcard(level.wildcard_sub_route[1], first.name)>>))
                       ELSE Err("NotFound")
             ELSE Panic

\* RouteLevel::get
Get(level, method, path) == GetRecursive(level, method, path, <<>>)

\* RouteLevel::add descending into the wildcard child a node already has, under
\* the name it already has
RECURSIVE AddKeepsWildcard(_, _, _, _)
AddKeepsWildcard(level, method, path, handler) ==
    IF path = <<>>
    THEN [level EXCEPT !.self_routes = Put(@, method, handler)]
    ELSE LET first == Head(path)
             rest == Tail(path)
         IN  IF first.type = "Static"
             THEN LET sub == IF first.name \in DOMAIN level.static_sub_routes
                             THEN level.static_sub_routes[first.name]
                             ELSE EmptyLevel
                  IN  [level EXCEPT !.static_sub_routes =
                          Put(@, first.name, AddKeepsWildcard(sub, method, rest, handler))]
             ELSE IF level.wildcard_sub_route # <<>>
                  THEN [level EXCEPT !.wildcard_sub_route =
                           <<@[1], AddKeepsWildcard(@[2], method, rest, handler)>>]
                  ELSE [level EXCEPT !.wildcard_sub_route =
                           <<first.name, AddKeepsWildcard(EmptyLevel, method, rest, handler)>>]

\* RouteLevel::add
RECURSIVE Add(_, _, _, _)
Add(level, method, path, handler) ==
    IF path = <<>>
    THEN [level EXCEPT !.self_routes = Put(@, method, handler)]
    ELSE LET first == Head(path)
             rest == Tail(path)
         IN  IF first.type = "Static"
             THEN LET sub == IF first.name \in DOMAIN level.static_sub_routes
                             THEN level.static_sub_routes[first.name]
                             ELSE EmptyLevel
                  IN  [level EXCEPT !.static_sub_routes =
                                        Put(@, first.name, Add(sub, method, rest, handler))]
             ELSE [level EXCEPT !.wildcard_sub_route =
                                    <<first.name, Add(EmptyLevel, method, rest, handler)>>]

(***************************************************************************)
(* Errors and their responses.                                             *)
(***************************************************************************)
\* Error::response_status, for the errors the router produces
ResponseStatus(e) ==
    CASE e.err = "NotFound" -> 404
      [] e.err = "MethodNotAllowed" -> 405
      [] OTHER -> 500

\* the methods an Error::MethodNotAllowed value carries; get_recursive builds the
\* value without any, so none is listed
AllowedOf(e) == IF "allow" \in DOMAIN e THEN e.allow ELSE {}

\* Error::as_response: the status and, for MethodNotAllowed, the Allow header
AsResponse(e) ==
    [status |-> ResponseStatus(e),
     headers |-> IF e.err = "MethodNotAllowed"
                 THEN [Allow |-> AllowedOf(e)]
                 ELSE EmptyMap]

\* the path parameter map keeping, for each name, the first pair instead of the last
RECURSIVE PathParamsFirstWins(_)
PathParamsFirstWins(matched_path) ==
    IF matched_path = <<>> THEN EmptyMap
    ELSE LET rest == PathParamsFirstWins(Tail(matched_path))
             first == Head(matched_path)
         IN  IF first.type = "Wildcard" THEN Put(rest, first.name, first.value) ELSE rest

\* the path parameter map of RequestInner::new: collecting (name, value) pairs into
\* a HashMap keeps, for each name, the last pair
RECURSIVE PathParams(_)
PathParams(matched_path) ==
    IF matched_path = <<>> THEN EmptyMap
    ELSE LET init == PathParams(SubSeq(matched_path, 1, Len(matched_path) - 1))
             last == matched_path[Len(matched_path)]
         IN  IF last.type = "Wildcard" THEN Put(init, last.name, last.value) ELSE init

\* ServerService::call up to the invocation of the route: parse, look up, and
\* either build the request or turn the error into a response
Dispatch(level, method, uri) ==
    LET path == RoutePathFrom(uri)
        got == Get(level, method, path)
    IN  CASE got.tag = "Ok" ->
                [tag |-> "Ok", matched_path |-> got.matched_path, route |-> got.route,
                 path_params |-> PathParams(got.matched_path)]
          [] got.tag = "Err" ->
                [tag |-> "Err", err |-> got.err, allowed |-> AllowedOf(got),
                 response |-> AsResponse(got)]
          [] OTHER -> Panic

(***************************************************************************)
(* The routing specification: any sequence of RouteLevel::add calls, and    *)
(* dispatches against the trie built so far.                                *)
(***************************************************************************)
Methods == {"GET", "HEAD", "DELETE"}

LookupMethods == Methods \cup {"PUT"}

\* declared route paths: /u, /u/{i}, /u/m, /{i}/{i}
DeclPaths ==
    { <<"/", "u">>,
      <<"/", "u", "/", "{", "i", "}">>,
      <<"/", "u", "/", "m">>,
      <<"/", "{", "i", "}", "/", "{", "i", "}">> }

\* request paths: /, /u, /u/m, /u/z, /z, /z/m, /u/{i}, /u/m/m, //u//m/
RequestPaths ==
    { <<"/">>,
      <<"/", "u">>,
      <<"/", "u", "/", "m">>,
      <<"/", "u", "/", "z">>,
      <<"/", "z">>,
      <<"/", "z", "/", "m">>,
      <<"/", "u", "/", "{", "i", "}">>,
      <<"/", "u", "/", "m", "/", "m">>,
      <<"/", "/", "u", "/", "/", "m", "/">> }

NoRes == [tag |-> "None"]

\* the handler registered for (method, path) is named after its registration
HandlerFor(method, path) == [method |-> method, path |-> path]

IdleChain ==
    /\ group = <<>>
    /\ served = FALSE
    /\ chain = <<>>
    /\ behaviour = <<>>
    /\ frames = <<>>
    /\ events = <<>>
    /\ response = <<>>

InitRoute ==
    /\ routes = EmptyLevel
    /\ reg = <<>>
    /\ res = NoRes
    /\ IdleChain
    /\ IdleExt

\* RouteLevel::add(method, path.into(), handler.into())
AddRoute ==
    /\ Len(reg) < MaxAdds
    /\ res = NoRes
    /\ \E method \in Methods, path \in DeclPaths :
          /\ routes' = Add(routes, method, RoutePathFrom(path),
                           CompleteRouteHandler(HandlerFor(method, path), <<>>))
          /\ reg' = Append(reg, <<method, path>>)
    /\ res' = res
    /\ UNCHANGED <<group, served, chain, behaviour, frames, events, response>>
    /\ UNCHANGED extVars

\* ServerService::call(req) for a request with this method and URI path
Lookup ==
    /\ res = NoRes
    /\ \E method \in LookupMethods, uri \in RequestPaths :
          res' = [tag |-> "Call", method |-> method, uri |-> uri,
                  out |-> Dispatch(routes, method, uri)]
    /\ UNCHANGED <<routes, reg, group, served, chain, behaviour, frames, events, response>>
    /\ UNCHANGED extVars

\* the response (or the abort) of the dispatch has been delivered
Respond ==
    /\ res # NoRes
    /\ res' = NoRes
    /\ UNCHANGED <<routes, reg, group, served, chain, behaviour, frames, events, response>>
    /\ UNCHANGED extVars

NextRoute == AddRoute \/ Lookup \/ Respond

SpecRoute == InitRoute /\ [][NextRoute]_vars

(***************************************************************************)
(* Route group composition.                                                *)
(***************************************************************************)
\* AppliedMiddleware::Local / AppliedMiddleware::Recursive
Local(mw) == [kind |-> "Local", mw |-> mw]

Recursive(mw) == [kind |-> "Recursive", mw |-> mw]

\* RouteGroup::new(path)
NewRouteGroup(id, path) ==
    [id |-> id, path |-> RoutePathFrom(path), routes |-> EmptyMap, groups |-> <<>>,
     middleware |-> <<>>]

\* the fold of into_route_level, first component: every declaration, in order
LocalMiddleware(collection) == [i \in 1..Len(collection) |-> collection[i].mw]

\* the fold of into_route_level passing the wrong list down: Local entries only
RECURSIVE RecursiveMiddlewareLocalOnly(_)
RecursiveMiddlewareLocalOnly(collection) ==
    IF collection = <<>> THEN <<>>
    ELSE (IF Head(collection).kind = "Local" THEN <<Head(collection).mw>> ELSE <<>>)
             \o RecursiveMiddlewareLocalOnly(Tail(collection))

\* the fold of into_route_level, second component: the Recursive entries, in order
RECURSIVE RecursiveMiddleware(_)
RecursiveMiddleware(collection) ==
    IF collection = <<>> THEN <<>>
    ELSE (IF Head(collection).kind = "Recursive" THEN <<Head(collection).mw>> ELSE <<>>)
             \o RecursiveMiddleware(Tail(collection))

\* the orders in which a HashMap may iterate over the keys S
IterationOrders(S) ==
    { f \in [1..Cardinality(S) -> S] : \A i, j \in 1..Cardinality(S) : i # j => f[i] # f[j] }

\* the concatenations of one sequence from each set of sequences, in order
RECURSIVE Concatenations(_)
Concatenations(sets) ==
    IF sets = <<>> THEN { <<>> }
    ELSE { a \o b : a \in Head(sets), b \in Concatenations(Tail(sets)) }

\* flatten_recursive walking the node's own routes and static children only
RECURSIVE FlattenRecursiveStaticOnly(_, _)
FlattenRecursiveStaticOnly(level, subpath) ==
    LET selfs == { [i \in 1..Len(o) |-> <<o[i], subpath, level.self_routes[o[i]]>>] :
                       o \in IterationOrders(DOMAIN level.self_routes) }
        statics == UNION { Concatenations(
                               [i \in 1..Len(o) |->
                                   FlattenRecursiveStaticOnly(level.static_sub_routes[o[i]],
                                       Join(subpath, <<Static(o[i])>>))]) :
                               o \in IterationOrders(DOMAIN level.static_sub_routes) }
    IN  { a \o b : a \in selfs, b \in statics }

\* RouteLevel::flatten_recursive: every list of (method, path, handler) triples
\* the walk may return, the maps being iterated in any order
RECURSIVE FlattenRecursive(_, _)
FlattenRecursive(level, subpath) ==
    LET selfs == { [i \in 1..Len(o) |-> <<o[i], subpath, level.self_routes[o[i]]>>] :
                       o \in IterationOrders(DOMAIN level.self_routes) }
        statics == UNION { Concatenations(
                               [i \in 1..Len(o) |->
                                   FlattenRecursive(level.static_sub_routes[o[i]],
                                                    Join(subpath, <<Static(o[i])>>))]) :
                               o \in IterationOrders(DOMAIN level.static_sub_routes) }
        wild == IF level.wildcard_sub_route = <<>> THEN { <<>> }
                ELSE FlattenRecursive(level.wildcard_sub_route[2],
                         Join(subpath, <<Wildcard(level.wildcard_sub_route[1])>>))
    IN  { a \o b \o c : a \in selfs, b \in statics, c \in wild }

\* RouteLevel::flatten
Flatten(level) == FlattenRecursive(level, <<>>)

\* RouteLevel::add_level, for one list of flattened triples
RECURSIVE AddLevel(_, _, _, _)
AddLevel(level, subpath, triples, middleware) ==
    IF triples = <<>> THEN level
    ELSE LET t == Head(triples)
         IN  AddLevel(Add(level, t[1], Join(subpath, t[2]), AddMiddleware(t[3], middleware)),
                      subpath, Tail(triples), middleware)

\* the loop of into_route_level over self.routes, for one iteration order
RECURSIVE AddRoutes(_, _, _, _)
AddRoutes(level, rts, order, local_middleware) ==
    IF order = <<>> THEN level
    ELSE LET key == Head(order)
         IN  AddRoutes(Add(level, key[1], key[2],
                           CompleteRouteHandler(rts[key], local_middleware)),
                       rts, Tail(order), local_middleware)

\* RouteGroup::into_route_level and RouteLevel::add_group: every trie the group
\* may turn into
RECURSIVE IntoRouteLevel(_), AddGroups(_, _, _)

\* the loop over self.groups handing each later sibling the Recursive middleware
\* of the earlier ones as well
RECURSIVE AddGroupsLeaking(_, _, _)
AddGroupsLeaking(levels, groups, middleware) ==
    IF groups = <<>> THEN levels
    ELSE AddGroupsLeaking(
             { AddLevel(level, Head(groups).path, triples, middleware) :
                   level \in levels,
                   triples \in UNION { Flatten(sub) : sub \in IntoRouteLevel(Head(groups)) } },
             Tail(groups), middleware \o RecursiveMiddleware(Head(groups).middleware))

IntoRouteLevel(g) ==
    LET local_middleware == LocalMiddleware(g.middleware)
        recursive_middleware == RecursiveMiddleware(g.middleware)
        direct == { AddRoutes(EmptyLevel, g.routes, o, local_middleware) :
                        o \in IterationOrders(DOMAIN g.routes) }
    IN  AddGroups(direct, g.groups, recursive_middleware)

AddGroups(levels, groups, middleware) ==
    IF groups = <<>> THEN levels
    ELSE AddGroups(
             { AddLevel(level, Head(groups).path, triples, middleware) :
                   level \in levels,
                   triples \in UNION { Flatten(sub) : sub \in IntoRouteLevel(Head(groups)) } },
             Tail(groups), middleware)

(***************************************************************************)
(* The group specification: a server's route groups are built with the     *)
(* builder calls, each nested group being completed before it is handed to *)
(* its parent, and serve_with turns the root group into the trie.          *)
(***************************************************************************)
MaxGroups == 3

IdChars == <<"1", "2", "3", "4", "5", "6">>

\* every sub-group is mounted at /a
GroupPath == <<"/", "a">>

\* the route of group id: /r<id>
RoutePathOf(id) == <<"/", "r", IdChars[id]>>

GroupHandler(id) == [group |-> id, method |-> "GET", path |-> RoutePathOf(id)]

\* the middleware functions of group id
LocalMw(id) == <<id, "local">>

RecursiveMw(id) == <<id, "recursive">>

RECURSIVE CountGroups(_)
CountGroups(groups) ==
    IF groups = <<>> THEN 0
    ELSE 1 + CountGroups(Head(groups).groups) + CountGroups(Tail(groups))

Top == group[Len(group)]

SetTop(g) == [group EXCEPT ![Len(group)] = g]

Declared(g, mw) == \E i \in 1..Len(g.middleware) : g.middleware[i].mw = mw

NoResponse == [tag |-> "None"]

IdleRequest ==
    /\ reg = <<>>
    /\ res = NoRes
    /\ chain = <<>>
    /\ behaviour = <<>>
    /\ frames = <<>>
    /\ events = <<>>
    /\ response = NoResponse

\* Server::default(): the root group has the empty path
InitGroup ==
    /\ group = <<NewRouteGroup(1, <<>>)>>
    /\ served = FALSE
    /\ routes = EmptyLevel
    /\ IdleRequest
    /\ IdleExt

\* RouteGroup::new(path)
NewGroup ==
    /\ ~served
    /\ CountGroups(group) < MaxGroups
    /\ group' = Append(group, NewRouteGroup(CountGroups(group) + 1, GroupPath))
    /\ UNCHANGED <<routes, reg, res, served, chain, behaviour, frames, events, response>>
    /\ UNCHANGED extVars

\* RouteGroup::route / Server::route
Route ==
    /\ ~served
    /\ group' = SetTop([Top EXCEPT !.routes =
                            Put(@, <<"GET", RoutePathFrom(RoutePathOf(Top.id))>>,
                                GroupHandler(Top.id))])
    /\ UNCHANGED <<routes, reg, res, served, chain, behaviour, frames, events, response>>
    /\ UNCHANGED extVars

\* RouteGroup::with_middleware / Server::with_middleware
WithMiddleware ==
    /\ ~served
    /\ ~Declared(Top, RecursiveMw(Top.id))
    /\ group' = SetTop([Top EXCEPT !.middleware = Append(@, Recursive(RecursiveMw(Top.id)))])
    /\ UNCHANGED <<routes, reg, res, served, chain, behaviour, frames, events, response>>
    /\ UNCHANGED extVars

\* RouteGroup::with_local_middleware / Server::with_local_middleware
WithLocalMiddleware ==
    /\ ~served
    /\ ~Declared(Top, LocalMw(Top.id))
    /\ group' = SetTop([Top EXCEPT !.middleware = Append(@, Local(LocalMw(Top.id)))])
    /\ UNCHANGED <<routes, reg, res, served, chain, behaviour, frames, events, response>>
    /\ UNCHANGED extVars

\* RouteGroup::route_group / Server::route_group: the finished group on top is
\* pushed onto its parent's groups
RouteGroupInto ==
    /\ ~served
    /\ Len(group) >= 2
    /\ group' = [SubSeq(group, 1, Len(group) - 1) EXCEPT
                     ![Len(group) - 1].groups = Append(@, Top)]
    /\ UNCHANGED <<routes, reg, res, served, chain, behaviour, frames, events, response>>
    /\ UNCHANGED extVars

\* Server::serve_with: self.routes.into_route_level()
Serve ==
    /\ ~served
    /\ Len(group) = 1
    /\ routes' \in IntoRouteLevel(group[1])
    /\ served' = TRUE
    /\ UNCHANGED <<group, reg, res, chain, behaviour, frames, events, response>>
    /\ UNCHANGED extVars

NextGroup ==
    NewGroup \/ Route \/ WithMiddleware \/ WithLocalMiddleware \/ RouteGroupInto \/ Serve

SpecGroup == InitGroup /\ [][NextGroup]_vars

(***************************************************************************)
(* The chain specification: one request runs through the invoker of a      *)
(* route whose group declared some middleware.  A middleware either pushes *)
(* its mark, calls next once and post-processes the response, or returns a *)
(* response of its own without calling next.                               *)
(***************************************************************************)
MaxChain == 3

ChainMiddleware == {"m1", "m2", "m3"}

ChainRoute == <<"/", "r">>

ChainHandler == [method |-> "GET", path |-> ChainRoute]

Declarations ==
    LET applied == { Local(m) : m \in ChainMiddleware } \cup
                       { Recursive(m) : m \in ChainMiddleware }
    IN  UNION { [1..n -> applied] : n \in 0..MaxChain }

InitChain ==
    /\ \E collection \in Declarations :
          group = <<[NewRouteGroup(1, <<>>) EXCEPT
                        !.routes = Put(@, <<"GET", RoutePathFrom(ChainRoute)>>, ChainHandler),
                        !.middleware = collection]>>
    /\ served = TRUE
    /\ routes \in IntoRouteLevel(group[1])
    /\ chain = Get(routes, "GET", RoutePathFrom(ChainRoute)).route
    /\ behaviour \in [ChainMiddleware -> {"pass", "stop"}]
    /\ reg = <<>>
    /\ res = NoRes
    /\ frames = <<>>
    /\ events = <<>>
    /\ response = NoResponse
    /\ IdleExt

\* impl FromRequest for NextFn, on the request a layer sees
NextFnFromRequest(req) ==
    IF req.next # <<>> THEN [tag |-> "Ok", val |-> req.next[1]] ELSE Err("NoNextFunction")

\* NextFn::call(req): req.next is set to the closure's next, its target is called
FrameOf(f) == [calls |-> f.calls, target |-> f.target, next |-> f.next, pc |-> "entered"]

Event(ev, layer, by) == [ev |-> ev, layer |-> layer, by |-> by]

Pop(stack) == SubSeq(stack, 1, Len(stack) - 1)

\* CompleteRouteHandler::call: self.invoker.call(req)
Invoke ==
    /\ frames = <<>>
    /\ response = NoResponse
    /\ frames' = <<FrameOf(chain.invoker)>>
    /\ UNCHANGED <<routes, reg, res, group, served, chain, behaviour, events, response>>
    /\ UNCHANGED extVars

\* a middleware pushes its mark and awaits next(req), next being req.next
MiddlewareCallsNext ==
    /\ frames # <<>>
    /\ frames[Len(frames)].calls = "middleware"
    /\ frames[Len(frames)].pc = "entered"
    /\ behaviour[frames[Len(frames)].target] = "pass"
    /\ frames[Len(frames)].next # <<>>
    /\ events' = Append(events, Event("pre", Len(frames), frames[Len(frames)].target))
    /\ frames' = Append([frames EXCEPT ![Len(frames)].pc = "awaiting"],
                        FrameOf(frames[Len(frames)].next[1]))
    /\ UNCHANGED <<routes, reg, res, group, served, chain, behaviour, response>>
    /\ UNCHANGED extVars

\* a middleware returns a response of its own without calling next
MiddlewareReturnsEarly ==
    /\ frames # <<>>
    /\ frames[Len(frames)].calls = "middleware"
    /\ frames[Len(frames)].pc = "entered"
    /\ behaviour[frames[Len(frames)].target] = "stop"
    /\ events' = Append(events, Event("stop", Len(frames), frames[Len(frames)].target))
    /\ response' = [tag |-> "Response", from |-> frames[Len(frames)].target, headers |-> <<>>]
    /\ frames' = Pop(frames)
    /\ UNCHANGED <<routes, reg, res, group, served, chain, behaviour>>
    /\ UNCHANGED extVars

\* the handler runs (req.next is None) and returns its response
HandlerRuns ==
    /\ frames # <<>>
    /\ frames[Len(frames)].calls = "handler"
    /\ events' = Append(events, Event("handler", Len(frames), frames[Len(frames)].target))
    /\ response' = [tag |-> "Response", from |-> frames[Len(frames)].target, headers |-> <<>>]
    /\ frames' = Pop(frames)
    /\ UNCHANGED <<routes, reg, res, group, served, chain, behaviour>>
    /\ UNCHANGED extVars

\* next(req) has returned: the middleware appends its header to the response
MiddlewarePostProcesses ==
    /\ frames # <<>>
    /\ frames[Len(frames)].pc = "awaiting"
    /\ events' = Append(events, Event("post", Len(frames), frames[Len(frames)].target))
    /\ response' = [response EXCEPT !.headers = Append(@, frames[Len(frames)].target)]
    /\ frames' = Pop(frames)
    /\ UNCHANGED <<routes, reg, res, group, served, chain, behaviour>>
    /\ UNCHANGED extVars

NextChain ==
    Invoke \/ MiddlewareCallsNext \/ MiddlewareReturnsEarly \/ HandlerRuns
        \/ MiddlewarePostProcesses

SpecChain == InitChain /\ [][NextChain]_vars

(***************************************************************************)
(* Notions the routing claims are stated with.                             *)
(***************************************************************************)
\* the last dispatch, when there is one
Called == res.tag = "Call"

ReqPath == RoutePathFrom(res.uri)

\* a request path all of whose segments are literal text
Literal(path) == \A i \in 1..Len(path) : path[i].type = "Static"

\* the trie node a matched path leads to: a Static segment names a static child,
\* a Wildcard segment the wildcard child
RECURSIVE NodeAlong(_, _)
NodeAlong(level, matched) ==
    IF matched = <<>> THEN level
    ELSE IF Head(matched).type = "Static"
         THEN NodeAlong(level.static_sub_routes[Head(matched).name], Tail(matched))
         ELSE NodeAlong(level.wildcard_sub_route[2], Tail(matched))

\* the trie nodes a literal request path resolves through, root first, as far as
\* each segment has a matching static child or, failing that, a wildcard child
RECURSIVE Resolve(_, _)
Resolve(level, path) ==
    IF path = <<>> THEN <<level>>
    ELSE IF Head(path).name \in DOMAIN level.static_sub_routes
         THEN <<level>> \o Resolve(level.static_sub_routes[Head(path).name], Tail(path))
         ELSE IF level.wildcard_sub_route # <<>>
              THEN <<level>> \o Resolve(level.wildcard_sub_route[2], Tail(path))
              ELSE <<level>>

\* the whole request path resolves to a node
Resolves(level, path) == Len(Resolve(level, path)) = Len(path) + 1

NodeReached(level, path) == Resolve(level, path)[Len(path) + 1]

\* an intermediate node: routes are registered below it
HasChildren(node) == DOMAIN node.static_sub_routes # {} \/ node.wildcard_sub_route # <<>>

\* the add of reg[j] replaces the wildcard child the route of reg[i] lives under
Clobbers(j, i) ==
    LET pj == RoutePathFrom(reg[j][2])
        pi == RoutePathFrom(reg[i][2])
    IN  \E k \in 1..Len(pj) :
            /\ k <= Len(pi)
            /\ pj[k].type = "Wildcard"
            /\ pi[k].type = "Wildcard"
            /\ \A l \in 1..(k - 1) : pj[l] = pi[l]

\* (method, path) was added and no later add replaced a wildcard child above it
Registered(method, path) ==
    \E i \in 1..Len(reg) :
        /\ reg[i] = <<method, path>>
        /\ \A j \in (i + 1)..Len(reg) : ~Clobbers(j, i)

PathU == <<"/", "u">>

PathUWild == <<"/", "u", "/", "{", "i", "}">>

PathUM == <<"/", "u", "/", "m">>

PathWildWild == <<"/", "{", "i", "}", "/", "{", "i", "}">>

(***************************************************************************)
(* C1. Exact-match priority: in a successful lookup, wherever the node      *)
(* reached has a static child named like the next request segment, the      *)
(* matched segment is that static child's, never the wildcard's; and with   *)
(* GET /u/{i} and GET /u/m registered in either order, GET /u/m returns the *)
(* /u/m handler with matched path [Static(u), Static(m)] while GET /u/z     *)
(* returns the wildcard handler.                                            *)
(***************************************************************************)
C1_ExactMatchPriority ==
    (Called /\ res.out.tag = "Ok") =>
        LET matched == res.out.matched_path
        IN  /\ \A i \in 1..Len(matched) :
                   LET node == NodeAlong(routes, SubSeq(matched, 1, i - 1))
                   IN  ReqPath[i].name \in DOMAIN node.static_sub_routes
                          => matched[i] = MatchedStatic(ReqPath[i].name)
            /\ (Registered("GET", PathUWild) /\ Registered("GET", PathUM) /\ res.method = "GET")
                  => /\ res.uri = <<"/", "u", "/", "m">>
                          => /\ res.out.route.handler = HandlerFor("GET", PathUM)
                             /\ matched = <<MatchedStatic(<<"u">>), MatchedStatic(<<"m">>)>>
                     /\ res.uri = <<"/", "u", "/", "z">>
                          => /\ res.out.route.handler = HandlerFor("GET", PathUWild)
                             /\ matched = <<MatchedStatic(<<"u">>),
                                            MatchedWildcard(<<"i">>, <<"z">>)>>

\* both routes are registered and GET /u/m has been answered by the /u/m handler
C1_Witness ==
    /\ Called
    /\ Registered("GET", PathUWild)
    /\ Registered("GET", PathUM)
    /\ res.method = "GET"
    /\ res.uri = <<"/", "u", "/", "m">>
    /\ res.out.tag = "Ok"
    /\ res.out.route.handler = HandlerFor("GET", PathUM)

(***************************************************************************)
(* C2. Method-not-allowed completeness: a lookup that reaches a node with   *)
(* at least one registered method, but not the requested one, returns       *)
(* MethodNotAllowed carrying exactly the methods registered at that node,   *)
(* and the 405 response's Allow header lists exactly those methods.         *)
(***************************************************************************)
C2_MethodNotAllowedCompleteness ==
    (/\ Called
     /\ Literal(ReqPath)
     /\ Resolves(routes, ReqPath)
     /\ DOMAIN NodeReached(routes, ReqPath).self_routes # {}
     /\ res.method \notin DOMAIN NodeReached(routes, ReqPath).self_routes)
        => /\ res.out.tag = "Err"
           /\ res.out.err = "MethodNotAllowed"
           /\ res.out.allowed = DOMAIN NodeReached(routes, ReqPath).self_routes
           /\ res.out.response.status = 405
           /\ res.out.response.headers.Allow = DOMAIN NodeReached(routes, ReqPath).self_routes

(***************************************************************************)
(* C3. Not-found vs wrong-method: a lookup of a literal path is NotFound    *)
(* when some segment has neither a matching static child nor a wildcard     *)
(* child at the node reached; it is MethodNotAllowed only when the whole    *)
(* path resolves to a node where some other method is registered; and a     *)
(* registered path with an unregistered method is never NotFound.           *)
(***************************************************************************)
C3_NotFoundVsWrongMethod ==
    (Called /\ Literal(ReqPath)) =>
        /\ ~Resolves(routes, ReqPath)
              => (res.out.tag = "Err" /\ res.out.err = "NotFound")
        /\ (res.out.tag = "Err" /\ res.out.err = "MethodNotAllowed")
              => /\ Resolves(routes, ReqPath)
                 /\ DOMAIN NodeReached(routes, ReqPath).self_routes # {}
                 /\ res.method \notin DOMAIN NodeReached(routes, ReqPath).self_routes
        /\ (/\ Resolves(routes, ReqPath)
            /\ DOMAIN NodeReached(routes, ReqPath).self_routes # {})
              => ~(res.out.tag = "Err" /\ res.out.err = "NotFound")

(***************************************************************************)
(* C4. A lookup of a path that ends at an intermediate node where no        *)
(* handler is registered for any method returns NotFound (404), and so      *)
(* does a path longer than every registered route.                          *)
(***************************************************************************)
C4_PrefixPathNotFound ==
    (Called /\ Literal(ReqPath)) =>
        /\ (/\ Resolves(routes, ReqPath)
            /\ DOMAIN NodeReached(routes, ReqPath).self_routes = {}
            /\ HasChildren(NodeReached(routes, ReqPath)))
              => /\ res.out.tag = "Err"
                 /\ res.out.err = "NotFound"
                 /\ res.out.response.status = 404
        /\ (\A i \in 1..Len(reg) : Len(RoutePathFrom(reg[i][2])) < Len(ReqPath))
              => /\ res.out.tag = "Err"
                 /\ res.out.err = "NotFound"
                 /\ res.out.response.status = 404

(***************************************************************************)
(* C5. Total lookup: every dispatch returns Ok, MethodNotAllowed or         *)
(* NotFound and never aborts, also for a request path with a segment of     *)
(* the form {name}.                                                         *)
(***************************************************************************)
C5_TotalLookup ==
    Called =>
        \/ res.out.tag = "Ok"
        \/ res.out.tag = "Err" /\ res.out.err \in {"MethodNotAllowed", "NotFound"}

(***************************************************************************)
(* C6. Matched-path construction: a successful lookup's matched path has    *)
(* one segment per request segment, in order: Static(text) where the        *)
(* descent used the static child, Wildcard(child_name, text) where it used  *)
(* the wildcard child.  As amended: the path-parameter map binds each       *)
(* wildcard name to the value of the last Wildcard segment with that name   *)
(* (so it is exactly the Wildcard segments' pairs when the names differ).   *)
(***************************************************************************)
MatchedAsDescended(matched) ==
    /\ Len(matched) = Len(ReqPath)
    /\ \A i \in 1..Len(matched) :
           LET node == NodeAlong(routes, SubSeq(matched, 1, i - 1))
               text == ReqPath[i].name
           IN  \/ /\ text \in DOMAIN node.static_sub_routes
                  /\ matched[i] = MatchedStatic(text)
               \/ /\ text \notin DOMAIN node.static_sub_routes
                  /\ node.wildcard_sub_route # <<>>
                  /\ matched[i] = MatchedWildcard(node.wildcard_sub_route[1], text)

WildcardPairs(matched) ==
    { <<matched[i].name, matched[i].value>> :
          i \in { k \in 1..Len(matched) : matched[k].type = "Wildcard" } }

MapPairs(map) == { <<name, map[name]>> : name \in DOMAIN map }

C6_MatchedPath ==
    (Called /\ res.out.tag = "Ok") =>
        LET matched == res.out.matched_path
            wild == { k \in 1..Len(matched) : matched[k].type = "Wildcard" }
        IN  /\ MatchedAsDescended(matched)
            /\ DOMAIN res.out.path_params = { matched[k].name : k \in wild }
            /\ \A k \in wild :
                   (\A l \in wild : matched[l].name = matched[k].name => l <= k)
                      => res.out.path_params[matched[k].name] = matched[k].value

\* the claim as stated: the map holds exactly the Wildcard segments' pairs
C6_Original ==
    (Called /\ res.out.tag = "Ok") =>
        /\ MatchedAsDescended(res.out.matched_path)
        /\ MapPairs(res.out.path_params) = WildcardPairs(res.out.matched_path)

\* a lookup through two wildcard children of the same name has succeeded
C6_Witness ==
    /\ Called
    /\ res.out.tag = "Ok"
    /\ res.out.matched_path =
           <<MatchedWildcard(<<"i">>, <<"z">>), MatchedWildcard(<<"i">>, <<"m">>)>>
    /\ res.out.path_params = [name \in {<<"i">>} |-> <<"m">>]

(***************************************************************************)
(* Notions the middleware claims are stated with.                          *)
(***************************************************************************)
IsPrefix(a, b) == Len(a) <= Len(b) /\ a = SubSeq(b, 1, Len(a))

\* the middleware the group declared, in declaration order, whatever their kind
DeclaredChain == [i \in 1..Len(group[1].middleware) |-> group[1].middleware[i].mw]

\* the first layer whose middleware does not call next; Len + 1 when all do
FirstStop ==
    LET stops == { i \in 1..Len(DeclaredChain) : behaviour[DeclaredChain[i]] = "stop" }
    IN  IF stops = {} THEN Len(DeclaredChain) + 1
        ELSE CHOOSE i \in stops : \A j \in stops : i <= j

\* pre(m1) .. pre(m(k-1)), then the handler or the stopping mk, then
\* post(m(k-1)) .. post(m1)
ExpectedEvents(k) ==
    [i \in 1..(k - 1) |-> Event("pre", i, DeclaredChain[i])]
        \o <<IF k <= Len(DeclaredChain)
              THEN Event("stop", k, DeclaredChain[k])
              ELSE Event("handler", k, ChainHandler)>>
        \o [i \in 1..(k - 1) |-> Event("post", k - i, DeclaredChain[k - i])]

\* the headers appended by layers hi down to lo, in that order
HeadersDownFrom(hi, lo) == [i \in 1..(hi - lo + 1) |-> DeclaredChain[hi + 1 - i]]

Done == frames = <<>> /\ response.tag = "Response"

(***************************************************************************)
(* C7. Middleware ordering: when every middleware of the chain [m1..mN]     *)
(* (the group's declarations in declaration order, Local and Recursive      *)
(* alike) calls next once and post-processes, the request's events are      *)
(* pre(m1)..pre(mN), handler, post(mN)..post(m1) and nothing else, and the  *)
(* post step of mi sees the response already modified by m(i+1)..mN.        *)
(***************************************************************************)
C7_MiddlewareOrdering ==
    FirstStop = Len(DeclaredChain) + 1 =>
        LET n == Len(DeclaredChain)
        IN  /\ IsPrefix(events, ExpectedEvents(n + 1))
            /\ (frames # <<>> /\ frames[Len(frames)].pc = "awaiting")
                  => /\ response.tag = "Response"
                     /\ response.headers = HeadersDownFrom(n, Len(frames) + 1)
            /\ Done => /\ events = ExpectedEvents(n + 1)
                       /\ response.from = ChainHandler
                       /\ response.headers = HeadersDownFrom(n, 1)

\* a chain of three different middleware, Local and Recursive mixed, has run
C7_Witness ==
    /\ Done
    /\ Len(DeclaredChain) = 3
    /\ FirstStop = 4
    /\ DeclaredChain = <<"m1", "m2", "m3">>
    /\ group[1].middleware[1].kind = "Local"
    /\ group[1].middleware[2].kind = "Recursive"
    /\ response.headers = <<"m3", "m2", "m1">>
    /\ Len(events) = 7

(***************************************************************************)
(* C8. Short-circuit: when mi is the first middleware that returns without  *)
(* calling next, no later middleware and not the handler is ever invoked,   *)
(* and the response delivered is mi's, post-processed by m(i-1)..m1 in that *)
(* order.                                                                   *)
(***************************************************************************)
C8_ShortCircuit ==
    FirstStop <= Len(DeclaredChain) =>
        /\ IsPrefix(events, ExpectedEvents(FirstStop))
        /\ Len(frames) <= FirstStop
        /\ \A i \in 1..Len(events) : events[i].ev # "handler" /\ events[i].layer <= FirstStop
        /\ Done => /\ events = ExpectedEvents(FirstStop)
                   /\ response.from = DeclaredChain[FirstStop]
                   /\ response.headers = HeadersDownFrom(FirstStop - 1, 1)

\* the second of three middleware has answered and the first has post-processed
C8_Witness ==
    /\ Done
    /\ Len(DeclaredChain) = 3
    /\ FirstStop = 2
    /\ response.from = DeclaredChain[2]
    /\ response.headers = <<DeclaredChain[1]>>
    /\ Len(events) = 3

(***************************************************************************)
(* Notions the group claims are stated with.                               *)
(***************************************************************************)
\* every group of the tree below g with its ancestors (outermost first) and the
\* path it is mounted at
RECURSIVE GroupsBelow(_, _, _)
GroupsBelow(g, ancestors, mount) ==
    { [g |-> g, ancestors |-> ancestors, mount |-> mount] } \cup
        UNION { GroupsBelow(g.groups[i], Append(ancestors, g), mount \o g.groups[i].path) :
                    i \in 1..Len(g.groups) }

AllGroups == GroupsBelow(group[1], <<>>, <<>>)

\* the groups that declare their route
WithRoute == { d \in AllGroups : DOMAIN d.g.routes # {} }

\* what the served trie answers for the route of d
Answer(d) == Get(routes, "GET", d.mount \o RoutePathFrom(RoutePathOf(d.g.id)))

InChain(mw, d) == \E i \in 1..Len(Answer(d).route.middleware) : Answer(d).route.middleware[i] = mw

IsAncestor(g, d) == \E i \in 1..Len(d.ancestors) : d.ancestors[i].id = g.id

DeclaresAs(g, kind, mw) ==
    \E i \in 1..Len(g.middleware) : g.middleware[i] = [kind |-> kind, mw |-> mw]

OfKind(collection, kinds) ==
    LET kept == SelectSeq(collection, LAMBDA a : a.kind \in kinds)
    IN  [i \in 1..Len(kept) |-> kept[i].mw]

RECURSIVE RecursiveOfAll(_)
RecursiveOfAll(ancestors) ==
    IF ancestors = <<>> THEN <<>>
    ELSE OfKind(Head(ancestors).middleware, {"Recursive"}) \o RecursiveOfAll(Tail(ancestors))

(***************************************************************************)
(* C9. Local vs recursive scope: in the served trie, a Recursive middleware *)
(* of group G is in the chain of every route declared directly in G and in  *)
(* every group nested under G at any depth; a Local middleware of G is in   *)
(* the chain of every route declared directly in G and of no route of a     *)
(* nested group.                                                            *)
(***************************************************************************)
C9_LocalVsRecursiveScope ==
    served =>
        \A d \in WithRoute :
            /\ Answer(d).tag = "Ok"
            /\ Answer(d).route.handler = GroupHandler(d.g.id)
            /\ \A x \in AllGroups :
                   /\ (DeclaresAs(x.g, "Recursive", RecursiveMw(x.g.id))
                          /\ (x.g.id = d.g.id \/ IsAncestor(x.g, d)))
                         => InChain(RecursiveMw(x.g.id), d)
                   /\ (DeclaresAs(x.g, "Local", LocalMw(x.g.id)) /\ x.g.id = d.g.id)
                         => InChain(LocalMw(x.g.id), d)
                   /\ (DeclaresAs(x.g, "Local", LocalMw(x.g.id)) /\ IsAncestor(x.g, d))
                         => ~InChain(LocalMw(x.g.id), d)

\* a route two groups below the root carries the root's Recursive middleware and
\* not the root's Local middleware
C9_Witness ==
    /\ served
    /\ DeclaresAs(group[1], "Recursive", RecursiveMw(1))
    /\ DeclaresAs(group[1], "Local", LocalMw(1))
    /\ \E d \in WithRoute :
           /\ Len(d.ancestors) = 2
           /\ Answer(d).tag = "Ok"
           /\ InChain(RecursiveMw(1), d)
           /\ ~InChain(LocalMw(1), d)

(***************************************************************************)
(* C10. Ancestor-outermost ordering: the final chain of a route declared in *)
(* a group nested k levels deep is the Recursive middleware of the          *)
(* outermost ancestor, then of each nearer ancestor in nesting order, then  *)
(* the declaring group's own Local and Recursive middleware in declaration  *)
(* order.                                                                   *)
(***************************************************************************)
C10_AncestorOutermost ==
    served =>
        \A d \in WithRoute :
            /\ Answer(d).tag = "Ok"
            /\ Answer(d).route.middleware =
                   RecursiveOfAll(d.ancestors)
                       \o OfKind(d.g.middleware, {"Local", "Recursive"})
            /\ Answer(d).route.invoker =
                   GenerateInvoker(Answer(d).route.middleware, GroupHandler(d.g.id))

\* a route two groups below the root whose chain takes middleware from all three
C10_Witness ==
    /\ served
    /\ \E d \in WithRoute :
           /\ Len(d.ancestors) = 2
           /\ Answer(d).tag = "Ok"
           /\ Answer(d).route.middleware =
                  <<RecursiveMw(1), RecursiveMw(2), LocalMw(3), RecursiveMw(3)>>

(***************************************************************************)
(* C11. Sibling independence: when two sub-groups A and B are nested in the *)
(* same parent and mounted at the same sub-path, no middleware of A, Local  *)
(* or Recursive, is in the chain of a route of B or of a descendant of B,   *)
(* and the other way round; the routes of both still carry the parent's     *)
(* Recursive middleware and not the parent's Local middleware.              *)
(***************************************************************************)
Siblings(a, b) ==
    /\ a.g.id # b.g.id
    /\ a.ancestors # <<>>
    /\ a.ancestors = b.ancestors
    /\ a.mount = b.mount

C11_SiblingIndependence ==
    served =>
        \A a \in AllGroups : \A b \in AllGroups :
            Siblings(a, b) =>
                \A d \in WithRoute :
                    (d.g.id = b.g.id \/ IsAncestor(b.g, d)) =>
                        LET parent == a.ancestors[Len(a.ancestors)]
                        IN  /\ Answer(d).tag = "Ok"
                            /\ ~InChain(LocalMw(a.g.id), d)
                            /\ ~InChain(RecursiveMw(a.g.id), d)
                            /\ DeclaresAs(parent, "Recursive", RecursiveMw(parent.id))
                                  => InChain(RecursiveMw(parent.id), d)
                            /\ ~InChain(LocalMw(parent.id), d)

\* two siblings mounted at /a, both declaring a Local and a Recursive middleware
\* under a parent that declares both too, each with its route served
C11_Witness ==
    /\ served
    /\ \E a \in WithRoute : \E b \in WithRoute :
           /\ Siblings(a, b)
           /\ \A x \in {a.g, b.g, a.ancestors[1]} :
                  /\ DeclaresAs(x, "Local", LocalMw(x.id))
                  /\ DeclaresAs(x, "Recursive", RecursiveMw(x.id))
           /\ InChain(RecursiveMw(b.g.id), b)
           /\ InChain(RecursiveMw(a.ancestors[1].id), b)
           /\ ~InChain(RecursiveMw(a.g.id), b)

(***************************************************************************)
(* TypeMap (typemap.rs): a HashMap from TypeId to a boxed value.  The       *)
(* HashMap is the set of its entries; a boxed value carries its type, so    *)
(* that the key of insert (value.type_id()) and the downcasts are computed. *)
(***************************************************************************)
Some(v) == [tag |-> "Some", val |-> v]

None == [tag |-> "None"]

\* Box::new(value) for a value of type T
Boxed(T, v) == [type |-> T, val |-> v]

\* value.type_id() / TypeId::of::<T>()
TypeIdOf(T) == T

\* HashMap::get
HashMapGet(map, key) ==
    IF \E e \in map : e.key = key
    THEN Some((CHOOSE e \in map : e.key = key).box)
    ELSE None

\* HashMap::remove
HashMapRemove(map, key) == { e \in map : e.key # key }

\* HashMap::insert: the entry of the key is replaced
HashMapInsert(map, key, box) == HashMapRemove(map, key) \cup {[key |-> key, box |-> box]}

\* x.downcast().unwrap() / downcast_ref / downcast_mut on an Option, mapped
Downcast(option, T) ==
    IF option = None THEN None
    ELSE IF option.val.type = T THEN Some(option.val.val) ELSE Panic

\* TypeMap::new
TypeMapNew == {}

\* TypeMap::insert keeping the entry that is already there
TypeMapInsertKeepsOld(map, T, value) ==
    [map |-> map \cup {[key |-> Boxed(T, value).type, box |-> Boxed(T, value)]},
     ret |-> Downcast(HashMapGet(map, Boxed(T, value).type), T)]

\* TypeMap::insert::<T>(value)
TypeMapInsert(map, T, value) ==
    [map |-> HashMapInsert(map, Boxed(T, value).type, Boxed(T, value)),
     ret |-> Downcast(HashMapGet(map, Boxed(T, value).type), T)]

\* TypeMap::get::<T>()
TypeMapGet(map, T) == Downcast(HashMapGet(map, TypeIdOf(T)), T)

\* TypeMap::get_mut::<T>()
TypeMapGetMut(map, T) == Downcast(HashMapGet(map, TypeIdOf(T)), T)

\* TypeMap::get_cloned::<T>()
TypeMapGetCloned(map, T) == TypeMapGet(map, T)

\* TypeMap::get_copied::<T>()
TypeMapGetCopied(map, T) == TypeMapGet(map, T)

\* TypeMap::remove leaving the entry in the map
TypeMapRemoveKeeps(map, T) ==
    [map |-> map, ret |-> Downcast(HashMapGet(map, TypeIdOf(T)), T)]

\* TypeMap::remove::<T>()
TypeMapRemove(map, T) ==
    [map |-> HashMapRemove(map, TypeIdOf(T)),
     ret |-> Downcast(HashMapGet(map, TypeIdOf(T)), T)]

(***************************************************************************)
(* The TypeMap specification: any sequence of its operations.              *)
(***************************************************************************)
Types == {"A", "B", "C"}

Values == {"v1", "v2", "v3"}

Absent == "absent"

\* what the callers did last for each type: the value they stored, or Absent
Written(T) == ret.written[T]

Returned(op, T, arg, result, before, written) ==
    [op |-> op, type |-> T, arg |-> arg, result |-> result, before |-> before,
     written |-> written]

InitTypeMap ==
    /\ typemap = TypeMapNew
    /\ ret = Returned("new", "", None, None, {}, [T \in Types |-> Absent])
    /\ state = <<>> /\ requests = <<>> /\ input = <<>> /\ out = <<>>
    /\ reports = <<>> /\ handled = <<>>
    /\ server = <<>> /\ receiver = <<>>
    /\ routes = EmptyLevel /\ reg = <<>> /\ res = NoRes /\ IdleChain

OthersOfTypeMap == <<routingVars, state, requests, input, out, reports, handled, server, receiver>>

InsertValue ==
    \E T \in Types, v \in Values :
        LET r == TypeMapInsert(typemap, T, v)
        IN  /\ typemap' = r.map
            /\ ret' = Returned("insert", T, Some(v), r.ret, typemap,
                                [ret.written EXCEPT ![T] = v])
            /\ UNCHANGED OthersOfTypeMap

GetValue ==
    \E T \in Types :
        /\ ret' = Returned("get", T, None, TypeMapGet(typemap, T), typemap, ret.written)
        /\ UNCHANGED <<typemap, OthersOfTypeMap>>

GetClonedValue ==
    \E T \in Types :
        /\ ret' = Returned("get_cloned", T, None, TypeMapGetCloned(typemap, T), typemap,
                            ret.written)
        /\ UNCHANGED <<typemap, OthersOfTypeMap>>

GetCopiedValue ==
    \E T \in Types :
        /\ ret' = Returned("get_copied", T, None, TypeMapGetCopied(typemap, T), typemap,
                            ret.written)
        /\ UNCHANGED <<typemap, OthersOfTypeMap>>

\* get_mut, and the caller writing through the reference it got (or not)
GetMutValue ==
    \E T \in Types, w \in Values \cup {Absent} :
        LET r == TypeMapGetMut(typemap, T)
            writes == r # None /\ r # Panic /\ w # Absent
        IN  /\ typemap' = IF writes
                          THEN { IF e.key = TypeIdOf(T) THEN [e EXCEPT !.box.val = w] ELSE e :
                                     e \in typemap }
                          ELSE typemap
            /\ ret' = Returned("get_mut", T, IF writes THEN Some(w) ELSE None, r, typemap,
                                IF writes THEN [ret.written EXCEPT ![T] = w] ELSE ret.written)
            /\ UNCHANGED OthersOfTypeMap

RemoveValue ==
    \E T \in Types :
        LET r == TypeMapRemove(typemap, T)
        IN  /\ typemap' = r.map
            /\ ret' = Returned("remove", T, None, r.ret, typemap,
                                [ret.written EXCEPT ![T] = Absent])
            /\ UNCHANGED OthersOfTypeMap

NextTypeMap ==
    \/ InsertValue
    \/ GetValue
    \/ GetClonedValue
    \/ GetCopiedValue
    \/ GetMutValue
    \/ RemoveValue

SpecTypeMap == InitTypeMap /\ [][NextTypeMap]_vars

(***************************************************************************)
(* Notions the TypeMap claims are stated with.                             *)
(***************************************************************************)
\* the entries of the map that hold a value of type T
EntriesOf(map, T) == { e \in map : e.box.type = T }

\* what a lookup of T has to return for the map
StoredIn(map, T) ==
    IF EntriesOf(map, T) = {} THEN None
    ELSE Some((CHOOSE e \in EntriesOf(map, T) : TRUE).box.val)

OthersUntouched(T) == \A U \in Types \ {T} : EntriesOf(typemap, U) = EntriesOf(ret.before, U)

Reads == {"get", "get_mut", "get_cloned", "get_copied"}

(***************************************************************************)
(* C12. TypeMap single-slot invariant: after any sequence of insert,        *)
(* get_mut and remove the map holds at most one value per type; insert<T>   *)
(* of v2 while v1 is stored returns Some(v1) and leaves exactly v2 stored   *)
(* for T, insert<T> with no T stored returns None, and the values of the    *)
(* other types are unchanged.                                               *)
(***************************************************************************)
C12_SingleSlot ==
    /\ \A T \in Types : Cardinality(EntriesOf(typemap, T)) <= 1
    /\ \A e \in typemap : e.key = e.box.type
    /\ ret.op = "insert" =>
          /\ ret.result = StoredIn(ret.before, ret.type)
          /\ { e.box.val : e \in EntriesOf(typemap, ret.type) } = {ret.arg.val}
          /\ OthersUntouched(ret.type)

\* v2 has just been inserted over v1 while another type holds a value
C12_Witness ==
    /\ ret.op = "insert"
    /\ ret.type = "A"
    /\ ret.arg = Some("v2")
    /\ ret.result = Some("v1")
    /\ StoredIn(typemap, "A") = Some("v2")
    /\ StoredIn(typemap, "B") = Some("v3")

(***************************************************************************)
(* C13. TypeMap read/delete semantics: get, get_mut, get_cloned, get_copied *)
(* and remove return None when no value of the type is stored; after        *)
(* insert<T>(v), get<T> returns v; remove<T> returns the stored value and   *)
(* get<T> returns None from then on until the next insert<T>; none of them  *)
(* affects the value of another type.                                       *)
(***************************************************************************)
C13_ReadDelete ==
    /\ \A T \in Types :
          StoredIn(typemap, T) = IF Written(T) = Absent THEN None ELSE Some(Written(T))
    /\ ret.op \in Reads \cup {"remove"} =>
          /\ ret.result = StoredIn(ret.before, ret.type)
          /\ OthersUntouched(ret.type)
    /\ (ret.op \in Reads /\ ret.arg = None) => typemap = ret.before
    /\ ret.op = "remove" => StoredIn(typemap, ret.type) = None

\* the value of a type has just been removed and returned, another type keeps its
C13_Witness ==
    /\ ret.op = "remove"
    /\ ret.type = "A"
    /\ ret.result = Some("v1")
    /\ Written("A") = Absent
    /\ StoredIn(typemap, "A") = None
    /\ StoredIn(typemap, "B") = Some("v2")

(***************************************************************************)
(* The global state: Server::with_state before serving, the State<T>       *)
(* extractor and Request::state_value in the requests of the running        *)
(* server.                                                                  *)
(***************************************************************************)
\* std::any::type_name::<T>()
TypeName(T) == [type_name |-> T]

UnknownStateTypeError(name) == [error |-> "UnknownStateTypeError", name |-> name]

OkValue(v) == [tag |-> "Ok", val |-> v]

\* with_state keeping the value registered first for the type
ServerWithStateKeepsFirst(map, S, value) ==
    IF TypeMapGet(map, S) = None THEN TypeMapInsert(map, S, value).map ELSE map

\* Server::with_state: self.state.insert(state)
ServerWithState(map, S, value) == TypeMapInsert(map, S, value).map

\* impl FromRequest for State<T>
StateFromRequest(map, T) ==
    LET found == TypeMapGetCloned(map, T)
    IN  IF found = None THEN Err(UnknownStateTypeError(TypeName(T)))
        ELSE IF found = Panic THEN Panic
        ELSE OkValue(found.val)

\* RequestInner::state_value
StateValue(map, T) ==
    LET found == TypeMapGetCloned(map, T)
    IN  IF found = None THEN Err(UnknownStateTypeError(TypeName(T)))
        ELSE IF found = Panic THEN Panic
        ELSE OkValue(found.val)

\* the last result of an extraction, the value passed last to with_state for
\* each type and the results every type has given since the server runs
Extracted(op, T, result, passed, seen) ==
    [op |-> op, type |-> T, result |-> result, passed |-> passed, seen |-> seen]

InitState ==
    /\ state = TypeMapNew
    /\ ret = Extracted("new", "", None, [T \in Types |-> Absent], [T \in Types |-> {}])
    /\ typemap = <<>> /\ requests = <<>> /\ input = <<>> /\ out = <<>>
    /\ reports = <<>> /\ handled = <<>>
    /\ server = <<>> /\ receiver = <<>>
    /\ routes = EmptyLevel /\ reg = <<>> /\ res = NoRes /\ IdleChain

OthersOfState ==
    <<routes, reg, res, group, chain, behaviour, frames, events, response,
      typemap, requests, input, out, reports, handled, server, receiver>>

\* Server::with_state(state)
WithState ==
    /\ ~served
    /\ \E S \in Types, v \in Values :
          /\ state' = ServerWithState(state, S, v)
          /\ ret' = [ret EXCEPT !.op = "with_state", !.type = S, !.result = None,
                                 !.passed[S] = v]
    /\ UNCHANGED <<served, OthersOfState>>

\* Server::serve_with: Arc::new(self.state), shared by every ServerService
ServeWith ==
    /\ ~served
    /\ served' = TRUE
    /\ ret' = [ret EXCEPT !.op = "serve_with", !.type = "", !.result = None]
    /\ UNCHANGED <<state, OthersOfState>>

\* a handler or middleware of a request extracting State<T>
ExtractState ==
    /\ served
    /\ \E T \in Types :
          LET result == StateFromRequest(state, T)
          IN  ret' = [ret EXCEPT !.op = "State", !.type = T, !.result = result,
                                 !.seen[T] = @ \cup {result}]
    /\ UNCHANGED <<state, served, OthersOfState>>

\* a handler or middleware of a request calling req.state_value::<T>()
RequestStateValue ==
    /\ served
    /\ \E T \in Types :
          LET result == StateValue(state, T)
          IN  ret' = [ret EXCEPT !.op = "state_value", !.type = T, !.result = result,
                                 !.seen[T] = @ \cup {result}]
    /\ UNCHANGED <<state, served, OthersOfState>>

NextState ==
    \/ WithState
    \/ ServeWith
    \/ ExtractState
    \/ RequestStateValue

SpecState == InitState /\ [][NextState]_vars

(***************************************************************************)
(* C14. State lookup: in every request of a running server, extracting      *)
(* State<T> or calling state_value<T> returns the value passed last to      *)
(* Server::with_state for T if one was registered before serving, and       *)
(* Err(UnknownStateTypeError(type name of T)) otherwise; the result for a   *)
(* given T is the same in every request for the life of the server.         *)
(***************************************************************************)
C14_StateLookup ==
    /\ ret.op \in {"State", "state_value"} =>
          ret.result = IF ret.passed[ret.type] = Absent
                       THEN Err(UnknownStateTypeError(TypeName(ret.type)))
                       ELSE OkValue(ret.passed[ret.type])
    /\ \A T \in Types : Cardinality(ret.seen[T]) <= 1

\* a registered type has given the value passed last for it, a type never
\* registered has given the error
C14_Witness ==
    /\ ret.op = "State"
    /\ ret.type = "A"
    /\ ret.result = OkValue("v2")
    /\ "v1" \in { e.box.val : e \in state } /\ StoredIn(state, "B") = Some("v1")
    /\ ret.seen["C"] = {Err(UnknownStateTypeError(TypeName("C")))}
    /\ ret.seen["A"] = {OkValue("v2")}

(***************************************************************************)
(* LocalState (state.rs): an Arc<Mutex<TypeMap>>.  The TypeMaps live in a   *)
(* heap and a LocalState is the index of one, so that a clone shares the    *)
(* map and LocalState::new allocates a new one.                             *)
(***************************************************************************)
MaxRequests == 2

\* the layers a request runs through: its middleware, then its handler
LocalChain == <<"m1", "m2", "handler">>

LocalTypes == {"A"}

\* RequestInner::new handing every request the LocalState of the first one
LocalStateNewShared(heap) ==
    IF heap = <<>> THEN [heap |-> Append(heap, TypeMapNew), local_state |-> Len(heap) + 1]
    ELSE [heap |-> heap, local_state |-> 1]

\* LocalState::new(): Arc::new(Mutex::new(TypeMap::default()))
LocalStateNew(heap) == [heap |-> Append(heap, TypeMapNew), local_state |-> Len(heap) + 1]

\* RequestInner::new, the part the local state depends on
RequestInnerNew(heap) ==
    LET fresh == LocalStateNew(heap)
    IN  [heap |-> fresh.heap,
         inner |-> [local_state |-> fresh.local_state, layer |-> 1, touched |-> FALSE,
                    written |-> [T \in LocalTypes |-> Absent]]]

\* the extractor giving each layer a LocalState of its own, copied from the
\* request's
LocalStateFromRequestCopies(heap, req) ==
    [heap |-> Append(heap, heap[req.local_state]), local_state |-> Len(heap) + 1]

\* impl FromRequest for LocalState / RequestInner::local_state:
\* req.local_state.clone(), a clone of the Arc
LocalStateFromRequest(heap, req) == [heap |-> heap, local_state |-> req.local_state]

\* LocalState::with(f): lock, run f on the TypeMap, unlock; f is one TypeMap call
LocalStateWith(heap, local_state, op, T, value) ==
    LET map == heap[local_state]
        done == CASE op = "insert" -> TypeMapInsert(map, T, value)
                  [] op = "remove" -> TypeMapRemove(map, T)
                  [] OTHER -> [map |-> map, ret |-> TypeMapGetCopied(map, T)]
    IN  [heap |-> [heap EXCEPT ![local_state] = done.map], ret |-> done.ret]

(***************************************************************************)
(* The LocalState specification: requests handled concurrently, each        *)
(* running down its chain; every layer may work on the LocalState it        *)
(* extracts from its request before it calls next.                          *)
(***************************************************************************)
NoCall == [op |-> "none"]

InitLocalState ==
    /\ requests = [heap |-> <<>>, inner |-> <<>>, last |-> NoCall]
    /\ typemap = <<>> /\ ret = <<>> /\ state = <<>> /\ input = <<>> /\ out = <<>>
    /\ reports = <<>> /\ handled = <<>>
    /\ server = <<>> /\ receiver = <<>>
    /\ routes = EmptyLevel /\ reg = <<>> /\ res = NoRes /\ IdleChain

OthersOfLocalState == <<routingVars, typemap, ret, state, input, out, reports, handled, server, receiver>>

\* ServerService::call: Request::new(req, matched_path, state)
NewRequest ==
    /\ Len(requests.inner) < MaxRequests
    /\ LET made == RequestInnerNew(requests.heap)
       IN  requests' = [requests EXCEPT !.heap = made.heap,
                                        !.inner = Append(@, made.inner),
                                        !.last = NoCall]
    /\ UNCHANGED OthersOfLocalState

\* a middleware or the handler of request r extracts the LocalState and calls
\* with on it; what it inserts is named after the request and the layer
LayerWith ==
    /\ \E r \in 1..Len(requests.inner), op \in {"insert", "remove", "get_copied"},
          T \in LocalTypes :
          LET req == requests.inner[r]
              got == LocalStateFromRequest(requests.heap, req)
              value == <<r, req.layer>>
              done == LocalStateWith(got.heap, got.local_state, op, T, value)
          IN  /\ req.layer <= Len(LocalChain)
              /\ requests' =
                    [heap |-> done.heap,
                     inner |-> [requests.inner EXCEPT
                                   ![r].touched = TRUE,
                                   ![r].written[T] =
                                       CASE op = "insert" -> value
                                         [] op = "remove" -> Absent
                                         [] OTHER -> @],
                     last |-> [op |-> op, request |-> r, layer |-> req.layer, type |-> T,
                               result |-> done.ret, before |-> req.written[T]]]
    /\ UNCHANGED OthersOfLocalState

\* the middleware calls next(req): the same request reaches the next layer
LayerCallsNext ==
    /\ \E r \in 1..Len(requests.inner) :
          /\ requests.inner[r].layer < Len(LocalChain)
          /\ requests' = [requests EXCEPT !.inner[r].layer = @ + 1, !.last = NoCall]
    /\ UNCHANGED OthersOfLocalState

\* the handler returns and the response travels back up: the request is over
RequestDone ==
    /\ \E r \in 1..Len(requests.inner) :
          /\ requests.inner[r].layer = Len(LocalChain)
          /\ requests' = [requests EXCEPT !.inner[r].layer = @ + 1, !.last = NoCall]
    /\ UNCHANGED OthersOfLocalState

NextLocalState ==
    \/ NewRequest
    \/ LayerWith
    \/ LayerCallsNext
    \/ RequestDone

SpecLocalState == InitLocalState /\ [][NextLocalState]_vars

(***************************************************************************)
(* Notions the LocalState claims are stated with.                          *)
(***************************************************************************)
Running == 1..Len(requests.inner)

\* the TypeMap behind the LocalState of request r
LocalMapOf(r) == requests.heap[requests.inner[r].local_state]

LastRead == requests.last.op = "get_copied"

(***************************************************************************)
(* C15. LocalState flows down the chain: a value of type T inserted into    *)
(* the request's LocalState by a middleware before it calls next is what    *)
(* get<T> returns in every later layer and in the handler of the same       *)
(* request, unless a layer in between removed or replaced it: all layers    *)
(* of one request share one LocalState.                                     *)
(***************************************************************************)
C15_LocalStateFlowsDown ==
    /\ LastRead =>
          requests.last.result =
              IF requests.last.before = Absent THEN None ELSE Some(requests.last.before)
    /\ \A r \in Running : \A T \in LocalTypes :
          StoredIn(LocalMapOf(r), T) =
              IF requests.inner[r].written[T] = Absent THEN None
              ELSE Some(requests.inner[r].written[T])

\* the handler reads what the first middleware of its request inserted
C15_Witness ==
    /\ LastRead
    /\ LocalChain[requests.last.layer] = "handler"
    /\ requests.last.result = Some(<<requests.last.request, 1>>)

(***************************************************************************)
(* C16. LocalState per-request isolation: every request starts with a       *)
(* fresh, empty LocalState, and under any interleaving of the requests      *)
(* handled concurrently a value inserted into the LocalState of one         *)
(* request is never observable through the LocalState of another.           *)
(***************************************************************************)
C16_PerRequestIsolation ==
    /\ \A r \in Running : ~requests.inner[r].touched => LocalMapOf(r) = TypeMapNew
    /\ \A r \in Running : \A q \in Running :
          r # q => requests.inner[r].local_state # requests.inner[q].local_state
    /\ \A r \in Running : \A e \in LocalMapOf(r) : e.box.val[1] = r
    /\ (requests.last.op \in {"get_copied", "remove", "insert"}
           /\ requests.last.result # None)
          => /\ requests.last.result # Panic
             /\ requests.last.result.val[1] = requests.last.request

\* the second request reads nothing in its handler while the first one, still
\* running, holds a value it inserted
C16_Witness ==
    /\ Len(requests.inner) = 2
    /\ LastRead
    /\ requests.last.request = 2
    /\ requests.last.result = None
    /\ requests.inner[1].layer <= Len(LocalChain)
    /\ StoredIn(LocalMapOf(1), "A") = Some(<<1, 1>>)

(***************************************************************************)
(* Printing and slicing paths: Display for RoutePathSegment and RoutePath,  *)
(* with_segments and of_segments.                                           *)
(***************************************************************************)
MaxPathLen == 5

\* impl Display for RoutePathSegment
SegmentToString(segment) ==
    IF segment.type = "Static" THEN segment.name
    ELSE <<"{">> \o segment.name \o <<"}">>

\* [String]::join(sep)
RECURSIVE JoinStrings(_, _)
JoinStrings(strings, sep) ==
    IF strings = <<>> THEN <<>>
    ELSE IF Len(strings) = 1 THEN strings[1]
    ELSE strings[1] \o sep \o JoinStrings(Tail(strings), sep)

\* Display for RoutePath joining the segments with nothing between them
RoutePathToStringUnseparated(path) ==
    <<"/">> \o JoinStrings([i \in 1..Len(path) |-> SegmentToString(path[i])], <<>>)

\* impl Display for RoutePath
RoutePathToString(path) ==
    <<"/">> \o JoinStrings([i \in 1..Len(path) |-> SegmentToString(path[i])], <<"/">>)

\* the bounds of a range: RangeBounds::start_bound / end_bound
Included(bound) == [kind |-> "Included", bound |-> bound]

Excluded(bound) == [kind |-> "Excluded", bound |-> bound]

Unbounded == [kind |-> "Unbounded"]

Range(start, end) == [start |-> start, end |-> end]

\* &self.0[start..end]: the slice, or the panic of an index out of range
Slice(segments, start, end) ==
    IF start > end \/ end > Len(segments) THEN Panic
    ELSE SubSeq(segments, start + 1, end)

\* RoutePath::with_segments / RoutePathMatched::with_segments
WithSegments(segments, range) ==
    LET start == CASE range.start.kind = "Excluded" -> range.start.bound
                   [] range.start.kind = "Included" -> range.start.bound + 1
                   [] OTHER -> 0
        end == CASE range.end.kind = "Excluded" -> range.end.bound
                 [] range.end.kind = "Included" -> range.end.bound + 1
                 [] OTHER -> Len(segments)
    IN  Slice(segments, start, end)

\* RoutePath::of_segments / RoutePathMatched::of_segments
OfSegments(segments, range) == WithSegments(segments, range)

(***************************************************************************)
(* The path specification: a string is parsed, and the path it gives is     *)
(* printed and sliced.                                                      *)
(***************************************************************************)
PathChars == {"/", "a", "{", "}"}

PathStrings == UNION { [1..n -> PathChars] : n \in 0..MaxPathLen }

\* the ranges Rust's range syntax builds, with bounds up to n:
\* a..b, a..=b, a.., ..b, ..=b and ..
RangesUpTo(n) ==
    { Range(Included(a), Excluded(b)) : a \in 0..n, b \in 0..n } \cup
    { Range(Included(a), Included(b)) : a \in 0..n, b \in 0..n } \cup
    { Range(Included(a), Unbounded) : a \in 0..n } \cup
    { Range(Unbounded, Excluded(b)) : b \in 0..n } \cup
    { Range(Unbounded, Included(b)) : b \in 0..n } \cup
    { Range(Unbounded, Unbounded) }

NoOut == [op |-> "none"]

\* the matched path RouteLevel::get returns for a path looked up where it was
\* registered
MatchedOf(path) == Get(Add(EmptyLevel, "GET", path, "h"), "GET", path)

InitPath ==
    /\ input \in PathStrings
    /\ out = NoOut
    /\ typemap = <<>> /\ ret = <<>> /\ state = <<>> /\ requests = <<>>
    /\ reports = <<>> /\ handled = <<>>
    /\ server = <<>> /\ receiver = <<>>
    /\ routes = EmptyLevel /\ reg = <<>> /\ res = NoRes /\ IdleChain

OthersOfPath == <<routingVars, typemap, ret, state, requests, input, reports, handled, server, receiver>>

\* RoutePath::from(input)
PathFrom ==
    /\ out = NoOut
    /\ out' = [op |-> "from", path |-> RoutePathFrom(input)]
    /\ UNCHANGED OthersOfPath

\* RoutePath::from(input).to_string(), and the string parsed again
PathToString ==
    /\ out = NoOut
    /\ LET path == RoutePathFrom(input)
       IN  out' = [op |-> "to_string", path |-> path, text |-> RoutePathToString(path),
                   again |-> RoutePathFrom(RoutePathToString(path))]
    /\ UNCHANGED OthersOfPath

\* RoutePath::from(input).with_segments(range)
PathWithSegments ==
    /\ out = NoOut
    /\ LET path == RoutePathFrom(input)
       IN  \E range \in RangesUpTo(Len(path)) :
              out' = [op |-> "with_segments", on |-> "RoutePath", path |-> path,
                      range |-> range, slice |-> WithSegments(path, range)]
    /\ UNCHANGED OthersOfPath

\* RoutePath::from(input).of_segments(range)
PathOfSegments ==
    /\ out = NoOut
    /\ LET path == RoutePathFrom(input)
       IN  \E range \in RangesUpTo(Len(path)) :
              out' = [op |-> "of_segments", on |-> "RoutePath", path |-> path,
                      range |-> range, slice |-> OfSegments(path, range)]
    /\ UNCHANGED OthersOfPath

\* with_segments(range) and of_segments(range) on the RoutePathMatched of input
MatchedWithSegments ==
    /\ out = NoOut
    /\ LET matched == MatchedOf(RoutePathFrom(input))
       IN  /\ matched.tag = "Ok"
           /\ \E range \in RangesUpTo(Len(matched.matched_path)),
                 op \in {"with_segments", "of_segments"} :
                  out' = [op |-> op, on |-> "RoutePathMatched",
                          path |-> matched.matched_path, range |-> range,
                          slice |-> IF op = "with_segments"
                                    THEN WithSegments(matched.matched_path, range)
                                    ELSE OfSegments(matched.matched_path, range)]
    /\ UNCHANGED OthersOfPath

\* the result is dropped; the next call is made on the same input
PathReturn ==
    /\ out # NoOut
    /\ out' = NoOut
    /\ UNCHANGED OthersOfPath

NextPath ==
    \/ PathReturn
    \/ PathFrom
    \/ PathToString
    \/ PathWithSegments
    \/ PathOfSegments
    \/ MatchedWithSegments

SpecPath == InitPath /\ [][NextPath]_vars

(***************************************************************************)
(* Notions the path claims are stated with.                                *)
(***************************************************************************)
\* where the non-empty '/'-separated pieces of s start
PieceStarts(s) == { i \in 1..Len(s) : s[i] # "/" /\ (i = 1 \/ s[i - 1] = "/") }

\* the piece of s that starts at i: up to the next slash or the end
PieceAt(s, i) ==
    LET ends == { j \in i..Len(s) : j = Len(s) \/ s[j + 1] = "/" }
    IN  SubSeq(s, i, CHOOSE j \in ends : \A k \in ends : j <= k)

\* the pieces of s in order
Pieces(s) ==
    [k \in 1..Cardinality(PieceStarts(s)) |->
        PieceAt(s, CHOOSE i \in PieceStarts(s) :
                       Cardinality({ j \in PieceStarts(s) : j < i }) = k - 1)]

Bracketed(piece) == piece[1] = "{" /\ piece[Len(piece)] = "}" /\ Len(piece) > 2

(***************************************************************************)
(* C17. Path parsing: RoutePath::from(s) yields exactly the non-empty       *)
(* '/'-separated pieces of s, in order, so leading, trailing and repeated   *)
(* slashes are insignificant and no parsed segment is the empty string; a   *)
(* piece is Wildcard(name) iff it starts with '{', ends with '}' and is     *)
(* longer than 2 characters, name being the text between the braces, and    *)
(* Static(piece) otherwise, so "{}" is a static segment.                    *)
(***************************************************************************)
C17_PathParsing ==
    out.op = "from" =>
        /\ Len(out.path) = Len(Pieces(input))
        /\ \A k \in 1..Len(out.path) :
              LET piece == Pieces(input)[k]
              IN  /\ out.path[k].name # <<>>
                  /\ Bracketed(piece) =>
                        out.path[k] = Wildcard(SubSeq(piece, 2, Len(piece) - 1))
                  /\ ~Bracketed(piece) => out.path[k] = Static(piece)
        /\ (\A i \in 1..Len(input) : input[i] = "/") => out.path = <<>>

\* "a//{}" parsed: the repeated slash gives no segment and "{}" is static
C17_Witness ==
    /\ out.op = "from"
    /\ input = <<"a", "/", "/", "{", "}">>
    /\ out.path = <<Static(<<"a">>), Static(<<"{", "}">>)>>

(***************************************************************************)
(* C18. Round-trip parsing: for every RoutePath p obtained by parsing a     *)
(* string, RoutePath::from(p.to_string()) equals p, and to_string() is the  *)
(* canonical form: "/" followed by the segments joined with "/", the empty  *)
(* path printing as "/".                                                    *)
(***************************************************************************)
C18_RoundTrip ==
    out.op = "to_string" =>
        /\ out.again = out.path
        /\ out.text[1] = "/"
        /\ out.path = <<>> => out.text = <<"/">>
        /\ out.path # <<>> => out.text[Len(out.text)] # "/"
        /\ \A i \in 1..(Len(out.text) - 1) : ~(out.text[i] = "/" /\ out.text[i + 1] = "/")
        /\ Len(Pieces(out.text)) = Len(out.path)
        /\ \A k \in 1..Len(out.path) :
              Pieces(out.text)[k] =
                  IF out.path[k].type = "Static" THEN out.path[k].name
                  ELSE <<"{">> \o out.path[k].name \o <<"}">>

\* "a//a/" parses to two literal segments, prints as "/a/a" and parses back
C18_Witness ==
    /\ out.op = "to_string"
    /\ input = <<"a", "/", "/", "a", "/">>
    /\ out.path = <<Static(<<"a">>), Static(<<"a">>)>>
    /\ out.text = <<"/", "a", "/", "a">>
    /\ out.again = out.path

(***************************************************************************)
(* C19. Range slicing: for a path with segments s[0..n) and every range r   *)
(* within bounds, with_segments(r) and of_segments(r), on RoutePath and on  *)
(* RoutePathMatched, return exactly the segments whose indices lie in r     *)
(* under standard range semantics: start-inclusive for a..b, a..=b and      *)
(* a.., from index 0 for ..b and ..=b, end-exclusive for ..b, end-inclusive *)
(* for ..=b.                                                                *)
(***************************************************************************)
\* the first index of the range and the index after its last one
FirstIndex(range) == IF range.start.kind = "Included" THEN range.start.bound ELSE 0

IndexAfterLast(range, n) ==
    CASE range.end.kind = "Excluded" -> range.end.bound
      [] range.end.kind = "Included" -> range.end.bound + 1
      [] OTHER -> n

WithinBounds(range, n) ==
    FirstIndex(range) <= IndexAfterLast(range, n) /\ IndexAfterLast(range, n) <= n

C19_RangeSlicing ==
    (out.op \in {"with_segments", "of_segments"} /\ WithinBounds(out.range, Len(out.path)))
        => out.slice = SubSeq(out.path, FirstIndex(out.range) + 1,
                              IndexAfterLast(out.range, Len(out.path)))

(***************************************************************************)
(* Error reporting: what ServerService::call sends on the error reporting   *)
(* channel once the chain of a request has returned.                        *)
(***************************************************************************)
MaxHandled == 2

ClientErrors ==
    {"StringError", "JsonError", "MissingQueryParameterError", "MissingHeaderError",
     "MissingCookieError", "PathParameterParseError", "QueryParameterParseError",
     "HeaderParseError", "CookieParseError", "NotFound", "MethodNotAllowed",
     "UnsupportedMediaType"}

ServerErrors ==
    {"ServerError", "MissingPathParameterError", "UnknownStateTypeError", "NoNextFunction",
     "ServerJsonError"}

\* Error::source
ErrorSourceOf(err) == IF err \in ServerErrors THEN "Server" ELSE "Client"

\* ErrorSource::is_server
IsServer(source) == source = "Server"

\* Response::Ok(inner) / Response::Err(Arc<Error>)
ResponseOk == [tag |-> "Ok"]

ResponseErr(err) == [tag |-> "Err", err |-> err]

\* what the chain of a route may return: user code
ChainResponses == {ResponseOk} \cup { ResponseErr(e) : e \in ClientErrors \cup ServerErrors }

\* ErrorSender::report: the message sent for request id
Reported(err, id) == [message |-> Some(err), request |-> id]

\* the report made for every Response::Err, whatever its source
ReportsOfAnyError(sender, final, id) ==
    IF final.tag = "Err" /\ sender THEN <<Reported(final.err, id)>> ELSE <<>>

\* server.rs, the if let after route.call: the messages sent for a response
ReportsOf(sender, final, id) ==
    IF final.tag = "Err"
    THEN IF IsServer(ErrorSourceOf(final.err))
         THEN IF sender THEN <<Reported(final.err, id)>> ELSE <<>>
         ELSE <<>>
    ELSE <<>>

(***************************************************************************)
(* The reporting specification: requests dispatched one after the other     *)
(* against a served trie, with or without an error sender configured.       *)
(***************************************************************************)
ReportMethods == {"GET", "PUT"}

ReportPaths == { <<"/", "u">>, <<"/", "z">>, <<"/", "u", "/", "{", "i", "}">> }

ReportRoutes ==
    Add(EmptyLevel, "GET", RoutePathFrom(<<"/", "u">>),
        CompleteRouteHandler(HandlerFor("GET", <<"/", "u">>), <<>>))

\* Server::with_error_reporting called or not, then serve_with
InitReport ==
    /\ reports \in { [sender |-> configured, sent |-> <<>>] : configured \in BOOLEAN }
    /\ handled = <<>>
    /\ routes = ReportRoutes
    /\ reg = <<>> /\ res = NoRes /\ IdleChain
    /\ typemap = <<>> /\ ret = <<>> /\ state = <<>> /\ requests = <<>>
    /\ input = <<>> /\ out = <<>>
    /\ server = <<>> /\ receiver = <<>>

OthersOfReport ==
    <<routes, reg, group, served, chain, behaviour, frames, events, response,
      typemap, ret, state, requests, input, out, server, receiver>>

\* ServerService::call up to the future it returns
ServiceCall ==
    /\ res = NoRes
    /\ Len(handled) < MaxHandled
    /\ \E method \in ReportMethods, uri \in ReportPaths :
          res' = [tag |-> "Call", method |-> method, uri |-> uri,
                  out |-> Dispatch(routes, method, uri)]
    /\ UNCHANGED <<reports, handled, OthersOfReport>>

\* the lookup failed: err.as_response() is the answer, nothing is reported
RoutingFailure ==
    /\ res.tag = "Call"
    /\ res.out.tag = "Err"
    /\ handled' = Append(handled, [request |-> Len(handled) + 1, routed |-> FALSE,
                                    failure |-> res.out.err, answered |-> TRUE])
    /\ res' = NoRes
    /\ UNCHANGED <<reports, OthersOfReport>>

\* Request::new fails on the body, or the lookup panicked: no response
ServiceError ==
    /\ res.tag = "Call"
    /\ res.out.tag \in {"Ok", "Panic"}
    /\ handled' = Append(handled, [request |-> Len(handled) + 1, routed |-> res.out.tag = "Ok",
                                    answered |-> FALSE])
    /\ res' = NoRes
    /\ UNCHANGED <<reports, OthersOfReport>>

\* route.call(req) returns the final response of the chain
ChainReturns ==
    /\ res.tag = "Call"
    /\ res.out.tag = "Ok"
    /\ \E final \in ChainResponses :
          /\ reports' = [reports EXCEPT
                            !.sent = @ \o ReportsOf(reports.sender, final, Len(handled) + 1)]
          /\ handled' = Append(handled, [request |-> Len(handled) + 1, routed |-> TRUE,
                                          response |-> final, answered |-> TRUE])
    /\ res' = NoRes
    /\ UNCHANGED OthersOfReport

NextReport ==
    \/ ServiceCall
    \/ RoutingFailure
    \/ ServiceError
    \/ ChainReturns

SpecReport == InitReport /\ [][NextReport]_vars

(***************************************************************************)
(* C20. Error reporting: with an error sender configured, an error is sent  *)
(* on the error reporting channel exactly once for a handled request if     *)
(* and only if the final response of its chain is Response::Err with an     *)
(* error whose source is Server; an Ok response, a Response::Err with a     *)
(* Client source and a routing failure (NotFound, MethodNotAllowed) never   *)
(* produce a report.                                                        *)
(***************************************************************************)
ReportsFor(id) == { i \in 1..Len(reports.sent) : reports.sent[i].request = id }

ServerSide(h) ==
    /\ h.routed /\ h.answered
    /\ h.response.tag = "Err"
    /\ h.response.err \in {"ServerError", "MissingPathParameterError",
                            "UnknownStateTypeError", "NoNextFunction", "ServerJsonError"}

C20_ErrorReporting ==
    /\ \A i \in 1..Len(reports.sent) : reports.sent[i].request \in 1..Len(handled)
    /\ reports.sender =>
          \A k \in 1..Len(handled) :
              /\ ServerSide(handled[k]) =>
                    /\ Cardinality(ReportsFor(k)) = 1
                    /\ \A i \in ReportsFor(k) :
                          reports.sent[i].message = Some(handled[k].response.err)
              /\ ~ServerSide(handled[k]) => ReportsFor(k) = {}

\* the first request failed in routing and was not reported, the chain of the
\* second returned NoNextFunction, which was reported once
C20_Witness ==
    /\ reports.sender
    /\ Len(handled) = 2
    /\ ~handled[1].routed /\ handled[1].answered /\ handled[1].failure = "NotFound"
    /\ handled[2].routed /\ handled[2].answered
    /\ handled[2].response = ResponseErr("NoNextFunction")
    /\ reports.sent = <<Reported("NoNextFunction", 2)>>

(***************************************************************************)
(* Graceful shutdown: the loop of Server::serve_with, the shutdown signal,  *)
(* the connection tasks it spawned and the ErrorReceiver draining the       *)
(* error reporting channel.                                                 *)
(***************************************************************************)
MaxConns == 2

MaxNones == 2

\* ErrorReceiver::next that stays Active when it receives the closing message
ErrorReceiverNextStaysActive(variant, received) ==
    IF variant = "Done" THEN [variant |-> "Done", result |-> None]
    ELSE [variant |-> "Active",
          result |-> IF received # None /\ received.val # None THEN received.val ELSE None]

\* ErrorReceiver::next; received is what receiver.recv().await returned
ErrorReceiverNext(variant, received) ==
    IF variant = "Active"
    THEN IF received # None /\ received.val # None
         THEN [variant |-> "Active", result |-> received.val]
         ELSE [variant |-> "Done", result |-> None]
    ELSE [variant |-> "Done", result |-> None]

\* ErrorSender::close: the message that ends the stream
Closing == [message |-> None, request |-> 0]

\* what the chain of a request returns in this specification
ShutdownResponses == {ResponseOk, ResponseErr("NotFound"), ResponseErr("NoNextFunction")}

InitShutdown ==
    /\ server = [pc |-> "accepting", signal |-> "none"]
    /\ receiver = [variant |-> "Active", pos |-> 0, yielded |-> <<>>]
    /\ reports = [sender |-> TRUE, sent |-> <<>>]
    /\ handled = <<>>
    /\ routes = ReportRoutes
    /\ reg = <<>> /\ res = NoRes /\ IdleChain
    /\ typemap = <<>> /\ ret = <<>> /\ state = <<>> /\ requests = <<>>
    /\ input = <<>> /\ out = <<>>

OthersOfShutdown == <<routingVars, typemap, ret, state, requests, input, out>>

\* listener.accept() wins the select: a connection task is spawned
Accept ==
    /\ server.pc = "accepting"
    /\ Len(handled) < MaxConns
    /\ handled' = Append(handled, [status |-> "running"])
    /\ UNCHANGED <<server, receiver, reports, OthersOfShutdown>>

\* the request of a connection task completes: ServerService::call reports
\* its final response, whether serve_with is still running or not
RequestCompletes ==
    /\ \E k \in 1..Len(handled), final \in ShutdownResponses :
          /\ handled[k].status = "running"
          /\ reports' = [reports EXCEPT !.sent = @ \o ReportsOf(reports.sender, final, k)]
          /\ handled' = [handled EXCEPT
                            ![k] = [status |-> "done", response |-> final,
                                    before_signal |-> server.signal = "none"]]
    /\ UNCHANGED <<server, receiver, OthersOfShutdown>>

\* ShutdownSender::shutdown
Shutdown ==
    /\ server.signal = "none"
    /\ server' = [server EXCEPT !.signal = "sent"]
    /\ UNCHANGED <<receiver, reports, handled, OthersOfShutdown>>

\* shutdown_receiver.await_signal() wins the select with true: break
AwaitSignal ==
    /\ server.pc = "accepting"
    /\ server.signal = "sent"
    /\ server' = [pc |-> "stopped", signal |-> "received"]
    /\ UNCHANGED <<receiver, reports, handled, OthersOfShutdown>>

\* after the loop: error_sender.close(), and serve_with returns
CloseAndReturn ==
    /\ server.pc = "stopped"
    /\ server' = [server EXCEPT !.pc = "returned"]
    /\ reports' = [reports EXCEPT !.sent = IF reports.sender THEN Append(@, Closing) ELSE @]
    /\ UNCHANGED <<receiver, handled, OthersOfShutdown>>

\* ErrorReceiver::next with a message waiting in the channel
ReceiverNext ==
    /\ receiver.variant = "Active"
    /\ receiver.pos < Len(reports.sent)
    /\ LET message == reports.sent[receiver.pos + 1]
           got == ErrorReceiverNext(receiver.variant, Some(message.message))
       IN  receiver' = [variant |-> got.variant, pos |-> receiver.pos + 1,
                        yielded |-> Append(receiver.yielded,
                                           [result |-> got.result,
                                            request |-> message.request])]
    /\ UNCHANGED <<server, reports, handled, OthersOfShutdown>>

\* ErrorReceiver::next on a receiver that is Done
ReceiverNextDone ==
    /\ receiver.variant = "Done"
    /\ Cardinality({ i \in 1..Len(receiver.yielded) : receiver.yielded[i].result = None })
          < MaxNones
    /\ LET got == ErrorReceiverNext(receiver.variant, None)
       IN  receiver' = [receiver EXCEPT
                           !.variant = got.variant,
                           !.yielded = Append(@, [result |-> got.result, request |-> 0])]
    /\ UNCHANGED <<server, reports, handled, OthersOfShutdown>>

NextShutdown ==
    \/ Accept
    \/ RequestCompletes
    \/ Shutdown
    \/ AwaitSignal
    \/ CloseAndReturn
    \/ ReceiverNext
    \/ ReceiverNextDone

\* the select takes the shutdown branch once the signal waits, serve_with runs
\* on to its return, and the caller keeps draining the receiver
SpecShutdown ==
    /\ InitShutdown
    /\ [][NextShutdown]_vars
    /\ WF_vars(AwaitSignal)
    /\ WF_vars(CloseAndReturn)
    /\ WF_vars(ReceiverNext)

(***************************************************************************)
(* Notions the shutdown claim is stated with.                              *)
(***************************************************************************)
\* the errors next has returned so far, and the reports sent before the closing
\* message, both as <<error, request>>
YieldedErrors ==
    LET kept == SelectSeq(receiver.yielded, LAMBDA y : y.result # None)
    IN  [i \in 1..Len(kept) |-> <<kept[i].result.val, kept[i].request>>]

RECURSIVE UpToClosing(_)
UpToClosing(sent) ==
    IF sent = <<>> \/ Head(sent) = Closing THEN <<>>
    ELSE <<(<<Head(sent).message.val, Head(sent).request>>)>> \o UpToClosing(Tail(sent))

\* the requests that completed with a Server error before shutdown was called
ReportedBeforeSignal ==
    { k \in 1..Len(handled) :
        /\ handled[k].status = "done"
        /\ handled[k].before_signal
        /\ handled[k].response \in {ResponseErr("NoNextFunction")} }

DrainedInOrder ==
    /\ IsPrefix(YieldedErrors, UpToClosing(reports.sent))
    /\ receiver.variant = "Done" =>
          /\ server.pc = "returned"
          /\ YieldedErrors = UpToClosing(reports.sent)
          /\ \A k \in ReportedBeforeSignal :
                \E i \in 1..Len(YieldedErrors) : YieldedErrors[i] = <<"NoNextFunction", k>>

DoneIsAbsorbing ==
    \A i \in 1..Len(receiver.yielded) : \A j \in 1..Len(receiver.yielded) :
        (i < j /\ receiver.yielded[i].result = None) => receiver.yielded[j].result = None

(***************************************************************************)
(* C21. Graceful shutdown and error-stream termination: once                *)
(* ShutdownSender::shutdown has been called, serve_with eventually stops    *)
(* accepting and returns; draining ErrorReceiver::next then yields every    *)
(* error reported by the requests that completed before the shutdown        *)
(* signal, in report order, and then None; once next has returned None      *)
(* every later call returns None.                                           *)
(***************************************************************************)
C21_GracefulShutdown ==
    /\ [](DrainedInOrder /\ DoneIsAbsorbing)
    /\ (server.signal = "sent") ~> (server.pc = "returned")
    /\ (server.pc = "returned") ~> (receiver.variant = "Done")

\* serve_with has returned, the receiver has yielded the error of the request
\* that completed before the signal, then None twice, while the error of a
\* request that completed after the closing message stays in the channel
C21_Witness ==
    /\ server.pc = "returned"
    /\ receiver.variant = "Done"
    /\ YieldedErrors = <<(<<"NoNextFunction", 1>>)>>
    /\ Len(receiver.yielded) = 3
    /\ ReportedBeforeSignal = {1}
    /\ Len(reports.sent) = 3
    /\ reports.sent[2] = Closing

(***************************************************************************)
(* C22. Next capability presence: during one request through the chain      *)
(* [m1..mN] with handler h, the request seen by each middleware mi carries  *)
(* a next capability that invokes exactly the remainder m(i+1)..mN, h; the  *)
(* request seen by the handler carries none, so extracting NextFn in a      *)
(* handler returns Err(NoNextFunction), also when the handler is reached    *)
(* through middleware.                                                      *)
(***************************************************************************)
\* who an invoker calls, layer after layer
RECURSIVE Invokes(_)
Invokes(invoker) ==
    <<invoker.target>> \o (IF invoker.next = <<>> THEN <<>> ELSE Invokes(invoker.next[1]))

C22_NextCapability ==
    \A i \in 1..Len(frames) :
        LET n == Len(DeclaredChain)
        IN  /\ i <= n =>
                  /\ frames[i].calls = "middleware"
                  /\ frames[i].target = DeclaredChain[i]
                  /\ NextFnFromRequest(frames[i]).tag = "Ok"
                  /\ Invokes(NextFnFromRequest(frames[i]).val)
                        = SubSeq(DeclaredChain, i + 1, n) \o <<ChainHandler>>
            /\ i = n + 1 =>
                  /\ frames[i].calls = "handler"
                  /\ frames[i].target = ChainHandler
                  /\ NextFnFromRequest(frames[i]) = Err("NoNextFunction")
            /\ i <= n + 1

\* the handler, reached through three middleware, has no next to extract
C22_Witness ==
    /\ Len(DeclaredChain) = 3
    /\ Len(frames) = 4
    /\ frames[4].calls = "handler"
    /\ NextFnFromRequest(frames[4]) = Err("NoNextFunction")
    /\ NextFnFromRequest(frames[1]).tag = "Ok"
    /\ Invokes(NextFnFromRequest(frames[1]).val) = <<DeclaredChain[2], DeclaredChain[3], ChainHandler>>

(***************************************************************************)
(* Notions the insertion claims are stated with.                            *)
(***************************************************************************)
\* a request path a declared path matches: every wildcard position holds the
\* text z, which names no static child of any trie built from DeclPaths
InstanceOf(path) ==
    [i \in 1..Len(path) |-> IF path[i].type = "Wildcard" THEN Static(<<"z">>) ELSE path[i]]

\* which handler, if any, the trie returns for the route declared as (method, path)
Answers(level, method, path) == Get(level, method, InstanceOf(RoutePathFrom(path)))

OwnHandler(method, path) == CompleteRouteHandler(HandlerFor(method, path), <<>>)

(***************************************************************************)
(* C23. Insertion preserves other routes: after any sequence of             *)
(* RouteLevel::add calls whose paths use one wildcard name, every route     *)
(* registered so far still resolves to its own handler; two methods on one  *)
(* wildcard path and two routes below one wildcard included.                *)
(***************************************************************************)
C23_InsertionPreserves ==
    \A i \in 1..Len(reg) :
        LET found == Answers(routes, reg[i][1], reg[i][2])
        IN  /\ found.tag = "Ok"
            /\ found.route = OwnHandler(reg[i][1], reg[i][2])

(***************************************************************************)
(* Registration of several handlers under one key: RouteLevel::add calls    *)
(* whose handler is one of two, and dispatches against the trie.            *)
(***************************************************************************)
OverwriteMethods == {"GET", "HEAD"}

\* declared route paths: /u, /u/{i}, /{i}/{i}
OverwritePaths == {PathU, PathUWild, PathWildWild}

Handlers == {"h1", "h2"}

InitOverwrite == InitRoute

\* RouteLevel::add(method, path.into(), handler.into())
AddHandler ==
    /\ Len(reg) < MaxAdds
    /\ res = NoRes
    /\ \E method \in OverwriteMethods, path \in OverwritePaths, handler \in Handlers :
          /\ routes' = Add(routes, method, RoutePathFrom(path),
                           CompleteRouteHandler(handler, <<>>))
          /\ reg' = Append(reg, <<method, path, handler>>)
    /\ res' = res
    /\ UNCHANGED <<group, served, chain, behaviour, frames, events, response>>
    /\ UNCHANGED extVars

NextOverwrite == AddHandler \/ Lookup \/ Respond

SpecOverwrite == InitOverwrite /\ [][NextOverwrite]_vars

\* the last add repeats the key of the add of reg[i], and no add in between
\* replaced the wildcard child that route lives under
Rewrites(history, i) ==
    LET j == Len(history)
    IN  /\ i < j
        /\ history[i][1] = history[j][1]
        /\ history[i][2] = history[j][2]
        /\ \A k \in (i + 1)..(j - 1) :
              LET pk == RoutePathFrom(history[k][2])
                  pi == RoutePathFrom(history[i][2])
              IN  ~ \E l \in 1..Len(pk) :
                        /\ l <= Len(pi)
                        /\ pk[l].type = "Wildcard"
                        /\ pi[l].type = "Wildcard"
                        /\ \A n \in 1..(l - 1) : pk[n] = pi[n]

\* the methods registered at the node of a declared path
MethodsAt(level, path) == DOMAIN NodeAlong(level, RoutePathFrom(path)).self_routes

(***************************************************************************)
(* C24. Last-write-wins on the same key: when an add repeats the key        *)
(* (method, path) of an earlier add, and no add in between replaced the     *)
(* wildcard child that route lives under, the add yields a trie (no error), *)
(* get(method, path) returns the handler of the later add, and the set of   *)
(* methods registered at the path's node is the one before the add.         *)
(***************************************************************************)
C24_LastWriteWins ==
    [][\A i \in 1..Len(reg) :
          (Len(reg') = Len(reg) + 1 /\ Rewrites(reg', i)) =>
              LET last == reg'[Len(reg')]
                  found == Get(routes', last[1], InstanceOf(RoutePathFrom(last[2])))
              IN  /\ DOMAIN routes' = DOMAIN EmptyLevel
                  /\ found.tag = "Ok"
                  /\ found.route = CompleteRouteHandler(last[3], <<>>)
                  /\ MethodsAt(routes', last[2]) = MethodsAt(routes, last[2])]_vars

\* h1 then h2 were registered for GET /u/{i}, with an add of another path in between
C24_Witness ==
    /\ Len(reg) = 3
    /\ reg[1] = <<"GET", PathUWild, "h1">>
    /\ reg[2][2] = PathU
    /\ reg[3] = <<"GET", PathUWild, "h2">>

(***************************************************************************)
(* Registration under two wildcard names: RouteLevel::add calls on paths    *)
(* whose wildcard is named x or y, and dispatches against the trie.         *)
(***************************************************************************)
WildcardMethods == {"GET", "HEAD"}

\* declared route paths: /, /u, /{x}, /{y}, /{x}/u
WildcardPaths ==
    { <<"/">>,
      <<"/", "u">>,
      <<"/", "{", "x", "}">>,
      <<"/", "{", "y", "}">>,
      <<"/", "{", "x", "}", "/", "u">> }

InitWildcard == InitRoute

\* RouteLevel::add(method, path.into(), handler.into())
AddWildcard ==
    /\ Len(reg) < MaxAdds
    /\ res = NoRes
    /\ \E method \in WildcardMethods, path \in WildcardPaths :
          /\ routes' = Add(routes, method, RoutePathFrom(path), OwnHandler(method, path))
          /\ reg' = Append(reg, <<method, path>>)
    /\ res' = res
    /\ UNCHANGED <<group, served, chain, behaviour, frames, events, response>>
    /\ UNCHANGED extVars

NextWildcard == AddWildcard \/ Lookup \/ Respond

SpecWildcard == InitWildcard /\ [][NextWildcard]_vars

\* every node of the trie
RECURSIVE Nodes(_)
Nodes(level) ==
    {level}
    \cup UNION {Nodes(level.static_sub_routes[name]) : name \in DOMAIN level.static_sub_routes}
    \cup (IF level.wildcard_sub_route = <<>> THEN {} ELSE Nodes(level.wildcard_sub_route[2]))

\* a node has no wildcard child, or one: a name and a subtree
AtMostOneWildcard(node) ==
    \/ node.wildcard_sub_route = <<>>
    \/ /\ Len(node.wildcard_sub_route) = 2
       /\ DOMAIN node.wildcard_sub_route[2] = DOMAIN EmptyLevel

HasWildcard(path) == \E k \in 1..Len(path) : path[k].type = "Wildcard"

\* the position of the first wildcard segment of a declared path
FirstWildcard(path) ==
    CHOOSE k \in 1..Len(path) :
        /\ path[k].type = "Wildcard"
        /\ \A l \in 1..(k - 1) : path[l].type = "Static"

\* the trie has a node for every segment of a path of static segments
RECURSIVE HasNode(_, _)
HasNode(level, path) ==
    \/ path = <<>>
    \/ /\ Head(path).name \in DOMAIN level.static_sub_routes
       /\ HasNode(level.static_sub_routes[Head(path).name], Tail(path))

\* the add of (method, declared) puts a wildcard named otherwise where the trie
\* has a wildcard child
Renames(level, declared) ==
    LET path == RoutePathFrom(declared)
    IN  /\ HasWildcard(path)
        /\ LET k == FirstWildcard(path)
               prefix == SubSeq(path, 1, k - 1)
           IN  /\ HasNode(level, prefix)
               /\ NodeAlong(level, prefix).wildcard_sub_route # <<>>
               /\ NodeAlong(level, prefix).wildcard_sub_route[1] # path[k].name

\* the declared path goes through the wildcard child of this name at this position
Through(declared, prefix, name) ==
    LET path == RoutePathFrom(declared)
    IN  /\ Len(path) > Len(prefix)
        /\ SubSeq(path, 1, Len(prefix)) = prefix
        /\ path[Len(prefix) + 1] = Wildcard(name)

(***************************************************************************)
(* C25. Single wildcard per node: every node of every trie built by add has *)
(* at most one wildcard child; and an add that puts a wildcard named y      *)
(* where the node's wildcard child is named x leaves a child named y, so    *)
(* that the new route's lookup binds the value under y, no route registered *)
(* under {x} resolves to its handler any more, and the node's static        *)
(* children and own methods are the ones before the add.                    *)
(***************************************************************************)
C25_SingleWildcard ==
    [][/\ \A node \in Nodes(routes') : AtMostOneWildcard(node)
       /\ (Len(reg') = Len(reg) + 1 /\ Renames(routes, reg'[Len(reg')][2])) =>
              LET last == reg'[Len(reg')]
                  path == RoutePathFrom(last[2])
                  k == FirstWildcard(path)
                  prefix == SubSeq(path, 1, k - 1)
                  before == NodeAlong(routes, prefix)
                  after == NodeAlong(routes', prefix)
                  found == Answers(routes', last[1], last[2])
              IN  /\ after.wildcard_sub_route[1] = path[k].name
                  /\ after.wildcard_sub_route[2] =
                         Add(EmptyLevel, last[1], SubSeq(path, k + 1, Len(path)),
                             OwnHandler(last[1], last[2]))
                  /\ found.tag = "Ok"
                  /\ found.matched_path[k] = MatchedWildcard(path[k].name, <<"z">>)
                  /\ \A i \in 1..Len(reg) :
                        Through(reg[i][2], prefix, before.wildcard_sub_route[1]) =>
                            LET old == Answers(routes', reg[i][1], reg[i][2])
                            IN  ~ (old.tag = "Ok"
                                   /\ old.route = OwnHandler(reg[i][1], reg[i][2]))
                  /\ after.static_sub_routes = before.static_sub_routes
                  /\ after.self_routes = before.self_routes]_vars

\* GET /{x}/u and GET /u were registered, then HEAD /{y}: the root has a static
\* child and a wildcard child renamed from x to y
C25_Witness ==
    /\ Len(reg) = 3
    /\ reg[1] = <<"GET", <<"/", "{", "x", "}", "/", "u">>>>
    /\ reg[2] = <<"GET", <<"/", "u">>>>
    /\ reg[3] = <<"HEAD", <<"/", "{", "y", "}">>>>
    /\ routes.wildcard_sub_route[1] = <<"y">>

(***************************************************************************)
(* Groups with several direct routes: the builder calls without middleware, *)
(* each group registering any of a few (method, path) keys, and serve_with  *)
(* turning the root group into the trie.                                    *)
(***************************************************************************)
MaxNest == 2

\* the keys a group may register: GET /{x}, POST /{x}, GET /r
NestKeys ==
    { <<"GET", <<"/", "{", "x", "}">>>>,
      <<"POST", <<"/", "{", "x", "}">>>>,
      <<"GET", <<"/", "r">>>> }

NestHandler(id, key) == [group |-> id, method |-> key[1], path |-> key[2]]

InitNest == InitGroup

\* RouteGroup::new(path)
NewNested ==
    /\ ~served
    /\ CountGroups(group) < MaxNest
    /\ group' = Append(group, NewRouteGroup(CountGroups(group) + 1, GroupPath))
    /\ UNCHANGED <<routes, reg, res, served, chain, behaviour, frames, events, response>>
    /\ UNCHANGED extVars

\* RouteGroup::route / Server::route
RouteNested ==
    /\ ~served
    /\ \E key \in NestKeys :
          group' = SetTop([Top EXCEPT !.routes =
                              Put(@, <<key[1], RoutePathFrom(key[2])>>,
                                  NestHandler(Top.id, key))])
    /\ UNCHANGED <<routes, reg, res, served, chain, behaviour, frames, events, response>>
    /\ UNCHANGED extVars

NextNest == NewNested \/ RouteNested \/ RouteGroupInto \/ Serve

SpecNest == InitNest /\ [][NextNest]_vars

(***************************************************************************)
(* C26. Mount-prefix reachability: in the served trie, the route (m, p, h)  *)
(* of a group nested through groups with paths q1, ..., qk resolves, for m  *)
(* at q1/.../qk/p, to the handler h.                                        *)
(***************************************************************************)
C26_MountPrefix ==
    served =>
        \A d \in { e \in AllGroups : e.ancestors # <<>> } : \A key \in DOMAIN d.g.routes :
            LET found == Get(routes, key[1], InstanceOf(Join(d.mount, key[2])))
            IN  /\ found.tag = "Ok"
                /\ found.route.handler = d.g.routes[key]

(***************************************************************************)
(* Notions the flattening claims are stated with.                           *)
(***************************************************************************)
\* the handlers registered in a trie, each with its method and the declared path
\* of its node
RECURSIVE Entries(_, _)
Entries(level, subpath) ==
    { <<method, subpath, level.self_routes[method]>> : method \in DOMAIN level.self_routes }
    \cup UNION { Entries(level.static_sub_routes[name], Append(subpath, Static(name))) :
                     name \in DOMAIN level.static_sub_routes }
    \cup (IF level.wildcard_sub_route = <<>> THEN {}
          ELSE Entries(level.wildcard_sub_route[2],
                       Append(subpath, Wildcard(level.wildcard_sub_route[1]))))

\* the trie after inserting the triples, in order, with RouteLevel::add
RECURSIVE Inserted(_, _)
Inserted(level, triples) ==
    IF triples = <<>> THEN level
    ELSE Inserted(Add(level, Head(triples)[1], Head(triples)[2], Head(triples)[3]),
                  Tail(triples))

\* two tries answer every lookup alike: equal tries do, others are asked
SameAnswers(a, b) ==
    \/ a = b
    \/ \A method \in LookupMethods, uri \in RequestPaths :
           Get(a, method, RoutePathFrom(uri)) = Get(b, method, RoutePathFrom(uri))

(***************************************************************************)
(* C27. Flatten round-trip: every list flatten may return for a trie built  *)
(* by add holds exactly one (method, declared path, handler) triple per     *)
(* handler registered in the trie, static and wildcard names as in the      *)
(* trie, and inserting the triples into an empty trie in any order gives a  *)
(* trie that answers every lookup as the flattened one does.                *)
(***************************************************************************)
C27_FlattenRoundTrip ==
    res = NoRes =>
        /\ \A triples \in Flatten(routes) :
              /\ Len(triples) = Cardinality(Entries(routes, <<>>))
              /\ { triples[i] : i \in 1..Len(triples) } = Entries(routes, <<>>)
        /\ \A order \in IterationOrders(Entries(routes, <<>>)) :
              SameAnswers(Inserted(EmptyLevel, order), routes)

\* a trie with a route at a static node, one under a wildcard below it and one
\* under two wildcards
C27_Witness ==
    /\ res = NoRes
    /\ Cardinality(Entries(routes, <<>>)) = 3
    /\ routes.wildcard_sub_route # <<>>
    /\ <<"u">> \in DOMAIN routes.static_sub_routes
    /\ routes.static_sub_routes[<<"u">>].wildcard_sub_route # <<>>
    /\ DOMAIN routes.static_sub_routes[<<"u">>].self_routes # {}

(***************************************************************************)
(* C28. Order-independent flattening: whatever the order in which the       *)
(* direct-route maps of the groups are iterated, into_route_level gives a   *)
(* trie with the same answer to every lookup of a declared route, at the    *)
(* root or under the mount path.                                            *)
(***************************************************************************)
C28_OrderIndependent ==
    \A a, b \in IntoRouteLevel(group[1]) :
        \A key \in NestKeys, mount \in {<<>>, RoutePathFrom(GroupPath)} :
            Get(a, key[1], InstanceOf(Join(mount, RoutePathFrom(key[2])))) =
                Get(b, key[1], InstanceOf(Join(mount, RoutePathFrom(key[2]))))

(***************************************************************************)
(* The lock specification: one request runs down its chain and back up;     *)
(* the layer that is running may have two with calls on the request's       *)
(* LocalState in flight at once (two futures polled concurrently).  The     *)
(* mutex queues its waiters in the order of their lock() calls.             *)
(***************************************************************************)
MaxWith == 3

\* the futures a layer may have in flight
Branches == {1, 2}

Callers == (1..Len(LocalChain)) \X Branches

NoHolder == <<>>

\* Mutex::lock() of a waiter completing although the guard is out
LockReadyWhileHeld(lock, caller) == lock.queue # <<>> /\ Head(lock.queue) = caller

\* Mutex::lock() of a waiter completes: no guard is out and it is first in line
LockReady(lock, caller) ==
    /\ lock.holder = NoHolder
    /\ lock.queue # <<>>
    /\ Head(lock.queue) = caller

InitLock ==
    /\ requests = [heap |-> LocalStateNew(<<>>).heap,
                   local_state |-> LocalStateNew(<<>>).local_state,
                   lock |-> [holder |-> NoHolder, queue |-> <<>>],
                   pc |-> [c \in Callers |-> "idle"],
                   layer |-> 1, returning |-> FALSE, calls |-> 0]
    /\ typemap = <<>> /\ ret = <<>> /\ state = <<>> /\ input = <<>> /\ out = <<>>
    /\ reports = <<>> /\ handled = <<>>
    /\ server = <<>> /\ receiver = <<>>
    /\ routes = EmptyLevel /\ reg = <<>> /\ res = NoRes /\ IdleChain

\* the running layer calls local_state.with(f): self.0.lock() joins the waiters
WithCall ==
    /\ requests.calls < MaxWith
    /\ \E branch \in Branches :
          LET c == <<requests.layer, branch>>
          IN  /\ requests.layer <= Len(LocalChain)
              /\ requests.pc[c] = "idle"
              /\ requests' = [requests EXCEPT !.pc[c] = "lock",
                                              !.lock.queue = Append(@, c),
                                              !.calls = @ + 1]
    /\ UNCHANGED OthersOfLocalState

\* let mut guard = self.0.lock().await
LockAcquire ==
    /\ \E c \in Callers :
          /\ requests.pc[c] = "lock"
          /\ LockReady(requests.lock, c)
          /\ requests' = [requests EXCEPT !.pc[c] = "locked",
                                          !.lock = [holder |-> c, queue |-> Tail(@.queue)]]
    /\ UNCHANGED OthersOfLocalState

\* let res = f(guard.borrow_mut()): the closure stores the caller's mark
RunClosure ==
    /\ \E c \in Callers :
          /\ requests.pc[c] = "locked"
          /\ requests' =
                [requests EXCEPT
                    !.pc[c] = "ran",
                    !.heap = LocalStateWith(@, requests.local_state, "insert", "A", c).heap]
    /\ UNCHANGED OthersOfLocalState

\* drop(guard); res
DropGuard ==
    /\ \E c \in Callers :
          /\ requests.pc[c] = "ran"
          /\ requests' = [requests EXCEPT !.pc[c] = "idle",
                                          !.lock.holder = NoHolder]
    /\ UNCHANGED OthersOfLocalState

\* the with calls of the running layer have returned
LayerIdle == \A branch \in Branches : requests.pc[<<requests.layer, branch>>] = "idle"

\* a middleware awaits next(req): the next layer runs
LockCallsNext ==
    /\ ~requests.returning
    /\ requests.layer < Len(LocalChain)
    /\ LayerIdle
    /\ requests' = [requests EXCEPT !.layer = @ + 1]
    /\ UNCHANGED OthersOfLocalState

\* the handler, or a middleware whose next has returned, is free to return;
\* the layer above resumes
LockReturns ==
    /\ requests.layer \in 2..Len(LocalChain)
    /\ requests.layer = Len(LocalChain) \/ requests.returning
    /\ LayerIdle
    /\ requests' = [requests EXCEPT !.layer = @ - 1, !.returning = TRUE]
    /\ UNCHANGED OthersOfLocalState

NextLock ==
    \/ WithCall
    \/ LockAcquire
    \/ RunClosure
    \/ DropGuard
    \/ LockCallsNext
    \/ LockReturns

SpecLock ==
    /\ InitLock
    /\ [][NextLock]_vars
    /\ WF_vars(LockAcquire)
    /\ WF_vars(RunClosure)
    /\ WF_vars(DropGuard)

\* the callers whose closure has the TypeMap
InClosure == { c \in Callers : requests.pc[c] \in {"locked", "ran"} }

\* the layers suspended at next(req).await
Suspended(c) == c[1] # requests.layer

(***************************************************************************)
(* C29. LocalState lock discipline: at most one closure has the TypeMap of  *)
(* a LocalState at a time, no layer holds the lock while it is suspended at *)
(* next or while it waits for the lock, and every with call, made on the    *)
(* way down or on the way back up, gets the lock.                          *)
(***************************************************************************)
C29_LockDiscipline ==
    /\ [](/\ Cardinality(InClosure) <= 1
          /\ \A c \in InClosure : requests.lock.holder = c /\ ~Suspended(c)
          /\ \A c \in Callers : requests.pc[c] = "lock" => requests.lock.holder # c)
    /\ \A c \in Callers : (requests.pc[c] = "lock") ~> (requests.pc[c] = "locked")

\* on the way back up, one with call of m1 waits while the other has the lock
C29_Witness ==
    /\ requests.returning
    /\ requests.layer = 1
    /\ requests.pc[<<1, 1>>] = "lock"
    /\ requests.pc[<<1, 2>>] = "ran"

(***************************************************************************)
(* The join specification: two strings are parsed, and the paths they give  *)
(* are joined, or the first is split.                                       *)
(***************************************************************************)
MaxJoinLen == 3

JoinInputs == UNION { [1..n -> PathChars] : n \in 0..MaxJoinLen }

\* impl From<RoutePathSegment> for RoutePath
RoutePathFromSegment(value) == <<value>>

\* RoutePath::split_first
SplitFirst(path) ==
    IF path = <<>> THEN None
    ELSE Some([first |-> Head(path), rest |-> Tail(path)])

InitJoin ==
    /\ input \in JoinInputs \X JoinInputs
    /\ out = NoOut
    /\ typemap = <<>> /\ ret = <<>> /\ state = <<>> /\ requests = <<>>
    /\ reports = <<>> /\ handled = <<>>
    /\ server = <<>> /\ receiver = <<>>
    /\ routes = EmptyLevel /\ reg = <<>> /\ res = NoRes /\ IdleChain

\* a.join(b) for a = RoutePath::from(input[1]), b = RoutePath::from(input[2]);
\* self is borrowed, its segments are copied with to_vec
PathJoin ==
    /\ out = NoOut
    /\ LET a == RoutePathFrom(input[1])
           b == RoutePathFrom(input[2])
       IN  out' = [op |-> "join", joined |-> Join(a, b), self |-> a, other |-> b]
    /\ UNCHANGED OthersOfPath

\* a.split_first() for a = RoutePath::from(input[1])
PathSplitFirst ==
    /\ out = NoOut
    /\ LET a == RoutePathFrom(input[1])
       IN  out' = [op |-> "split_first", split |-> SplitFirst(a), self |-> a]
    /\ UNCHANGED OthersOfPath

NextJoin == PathJoin \/ PathSplitFirst \/ PathReturn

SpecJoin == InitJoin /\ [][NextJoin]_vars

(***************************************************************************)
(* C30. Join and split_first are inverse and non-mutating: a.join(b) has    *)
(* the segments of a followed by those of b, and a and b are as they were;  *)
(* split_first gives None for the empty path and otherwise (head, rest)     *)
(* with RoutePath::from(head).join(rest) the original path and rest one     *)
(* segment shorter, the path being as it was.                              *)
(***************************************************************************)
C30_JoinSplitInverse ==
    /\ out.op = "join" =>
          LET a == RoutePathFrom(input[1])
              b == RoutePathFrom(input[2])
          IN  /\ Len(out.joined) = Len(a) + Len(b)
              /\ \A i \in 1..Len(a) : out.joined[i] = a[i]
              /\ \A i \in 1..Len(b) : out.joined[Len(a) + i] = b[i]
              /\ out.self = a
              /\ out.other = b
    /\ out.op = "split_first" =>
          LET a == RoutePathFrom(input[1])
          IN  /\ out.self = a
              /\ a = <<>> => out.split = None
              /\ a # <<>> =>
                    /\ out.split.tag = "Some"
                    /\ Join(RoutePathFromSegment(out.split.val.first), out.split.val.rest) = a
                    /\ Len(out.split.val.rest) = Len(a) - 1

\* a path of two segments, a static and a wildcard one, was split
C30_Witness ==
    /\ out.op = "split_first"
    /\ Len(out.self) = 2
    /\ out.split.tag = "Some"
    /\ out.split.val.first.type = "Static"
    /\ out.split.val.rest # <<>>

====
